---- MODULE Spec2Model ----
(***************************************************************************)
(* Model of the rendezvous mediator (src/src/rendezvous_mediator.rs):      *)
(* the orchestrator cycle of start_all, one registration loop per host     *)
(* (start_udp or start_tcp), the shared dispatch handle_resp, the latency  *)
(* callbacks, and the mismatch guard SOLVING_PK_MISMATCH with its mutex.   *)
(*                                                                         *)
(* Time: every Instant the code keeps is modelled by its age, the value    *)
(* x.elapsed() would return, in microseconds.  Elapse(dt) lets dt pass     *)
(* for every Instant at once.  An age that the code only compares with     *)
(* thresholds (the Instants of the UDP loop, conn_start_time) stops        *)
(* growing at the largest of them: every comparison and every value the    *)
(* code takes from it is the same from there on.  The Instants of the TCP  *)
(* loop are counted as they are (an age is published, and the threshold    *)
(* of the other comes from the server); time passes while they stay        *)
(* within Horizon.  None is the Option::None of an Option<Instant>.        *)
(*                                                                         *)
(* Concurrency: host tasks run on a multi-threaded executor.  A handler    *)
(* is one action up to its next .await (the guard's mutex, a send, the     *)
(* re-resolution of the host); the steps after such an await are actions   *)
(* of their own.                                                           *)
(***************************************************************************)
EXTENDS Integers, Sequences, FiniteSets, TLC

VARIABLES
    mpc,                  \* position of start_all: "top", "join", "sleep"
    cyc,                  \* [start: age of conn_start_time, sleep: remaining sleep]
    SHOULD_EXIT,          \* static AtomicBool
    MANUAL_RESTARTED,     \* static AtomicBool
    SOLVING_PK_MISMATCH,  \* the guarded String
    lock,                 \* holder of the tokio Mutex around it, or Free
    cfg,                  \* the Config store, as far as the mediator uses it
    env,                  \* static build/deployment inputs: transport, public
                          \* server, service stopped, overflow checks, the
                          \* relay-server option, the local NAT type, the
                          \* family of the resolved server address, the
                          \* session type (X11 or not), the use of uinput
    rz,                   \* per host: task position and loop-local state
    out,                  \* what the last step did: sends, publications
    pending,              \* host whose recovery is not yet answered OK
    solvers,              \* hosts that recovered since the guard was last cleared
    samples,              \* per host: accepted measurements so far (saturating)
    rawR,                 \* the fixed round trip of the constant-stream runs
    q,                    \* the online-status query: position and locals
    spawned,              \* detached traversal handlers still running
    trav,                 \* the traversal handler that is followed step by
                          \* step: position, session clone, message, calls
    wl                    \* the Wayland capture statics (server/wayland.rs)
                          \* and the result of the last call

vars == <<mpc, cyc, SHOULD_EXIT, MANUAL_RESTARTED, SOLVING_PK_MISMATCH, lock,
          cfg, env, rz, out, pending, solvers, samples, rawR, q, spawned, trav, wl>>

----------------------------------------------------------------------------
(* Constants of the program *)

MIN_REG_TIMEOUT == 3000
MAX_REG_TIMEOUT == 30000
MAX_FAILS1 == 2
MAX_FAILS2 == 4
DNS_INTERVAL == 60000
DEFAULT_KEEP_ALIVE == 60000
TIMER_OUT == 1000
REG_INTERVAL == 12000
CONNECT_TIMEOUT == 18000
MAX_LATENCY == 1000000
EMA_N == 30
MIN_DEADBAND == 3000

(* Bounds of the model *)

MaxSamples == 2     \* measurements per loop in the timing specification
MaxFails == 10      \* the failure counter stops growing here
Horizon == 2000000000   \* the largest age of an Instant of the TCP loop
MaxAge == 108000000     \* the same in the runs on the grid of the TCP timer
MaxTasks == 2       \* detached traversal handlers running at a time
MaxTries == 4       \* the count of attempts of a query stops growing here

None == 0 - 1
NoLat == 0 - 2      \* no latency published for the host
Free == "free"
NoHost == ""

HostA == "rs-ny.example.com"
HostB == "10.0.0.7"
Hosts == {HostA, HostB}

Min(a, b) == IF a < b THEN a ELSE b
Max(a, b) == IF a > b THEN a ELSE b
Abs(a) == IF a < 0 THEN 0 - a ELSE a

----------------------------------------------------------------------------
(* get_host_prefix: the first label of the host, or the whole host if that *)
(* label parses as an i32.                                                 *)

HostLabels(h) ==
    IF h = HostA THEN <<"rs-ny", "example", "com">>
    ELSE <<"10", "0", "0", "7">>

ParsesAsI32(x) == x \in {"10", "0", "7"}

get_host_prefix(h) ==
    LET x == Head(HostLabels(h))
    IN  IF ParsesAsI32(x) THEN h ELSE x

Keys == Hosts \cup {get_host_prefix(h) : h \in Hosts}

----------------------------------------------------------------------------
(* Ages *)

SentCap == MAX_REG_TIMEOUT * 1000
RespCap == REG_INTERVAL * 1000
DnsCap == (DNS_INTERVAL + 1) * 1000
CycCap == CONNECT_TIMEOUT * 1000

Older(a, dt, cap) == IF a = None THEN None ELSE Min(a + dt, cap)

(* an age that is counted as it is *)
Aged(a, dt) == IF a = None THEN None ELSE a + dt

WithinHorizon(a, dt) == a = None \/ a + dt <= Horizon

as_millis(a) == a \div 1000

----------------------------------------------------------------------------
(* Loop-local state of a host task *)

IdleRz ==
    [pc |-> "idle", addr |-> 0, laddr |-> 0, keep_alive |-> DEFAULT_KEEP_ALIVE,
     reg_timeout |-> MIN_REG_TIMEOUT, fails |-> 0,
     resp |-> None, sent |-> None, dns |-> None, now |-> None, recv |-> None,
     old |-> 0, ema |-> 0, flag |-> FALSE, ka |-> 0, kind |-> ""]

Spawned == [IdleRz EXCEPT !.pc = "start"]

(* no traversal handler is followed *)
IdleTrav == [pc |-> "idle"]

OlderRz(r, dt) ==
    [r EXCEPT !.resp = Older(r.resp, dt, RespCap),
              !.sent = IF env.tcp THEN Aged(r.sent, dt)
                       ELSE Older(r.sent, dt, SentCap),
              !.dns = Older(r.dns, dt, DnsCap),
              !.now = Older(r.now, dt, SentCap),
              !.recv = Aged(r.recv, dt)]

(* The event record: host, operation, sends (message and destination),     *)
(* latency publications, in the order the step made them, and for a        *)
(* ConfigureUpdate the pushed list and serial.                             *)
Ev(h, op, sent, pub) ==
    [h |-> h, op |-> op, sent |-> sent, pub |-> pub, arg |-> <<>>]

EvArg(h, op, arg) ==
    [h |-> h, op |-> op, sent |-> <<>>, pub |-> <<>>, arg |-> arg]

(* a send and its outcome *)
EvSend(h, op, sent, ok) ==
    [h |-> h, op |-> op, sent |-> sent, pub |-> <<>>, arg |-> <<ok>>]

NoEv == Ev(NoHost, "none", <<>>, <<>>)

Snd(m, to) == [m |-> m, to |-> to]

----------------------------------------------------------------------------
(* Config, as the mediator uses it *)

DefaultServers == <<HostA>>

get_rendezvous_servers(c) ==
    IF c.servers # <<>> THEN c.servers ELSE DefaultServers

InList(h, l) == \E i \in 1..Len(l) : l[i] = h

update_latency_cfg(c, h, pub) ==
    IF pub = <<>> THEN c
    ELSE [c EXCEPT !.latency[h] = pub[Len(pub)]]

reset_online(c) == [c EXCEPT !.latency = [h \in Hosts |-> NoLat]]

KeyUnconfirmed(c, key) == ~c.key_confirmed \/ ~c.hkc[key]

----------------------------------------------------------------------------
(* The UDP latency callback (update_latency closure of start_udp) *)

Accepted(latency) == ~(latency < 0 \/ latency > MAX_LATENCY)

NextEmaUnseeded(latency, ema) ==
    latency \div EMA_N + (ema * (EMA_N - 1)) \div EMA_N

NextEma(latency, ema) ==
    IF ema = 0 THEN latency
    ELSE latency \div EMA_N + (ema * (EMA_N - 1)) \div EMA_N

Deadband(latency) == Max(latency \div 5, MIN_DEADBAND)

PublishOutsideDeadband(latency, old) ==
    Abs(latency - old) > Deadband(latency)

ShouldPublish(latency, old) ==
    Abs(latency - old) > Deadband(latency) \/ old <= 0

RawLatency(r) == IF r.sent = None THEN 0 ELSE r.sent

udp_update_latency(r) ==
    LET raw == RawLatency(r)
        r1 == [r EXCEPT !.resp = 0, !.fails = 0,
                        !.reg_timeout = MIN_REG_TIMEOUT, !.sent = None]
        ema == NextEma(raw, r.ema)
    IN  IF ~Accepted(raw) THEN [r |-> r1, pub |-> <<>>, acc |-> FALSE]
        ELSE IF ShouldPublish(ema, r.old)
             THEN [r |-> [r1 EXCEPT !.ema = ema, !.old = ema],
                   pub |-> <<ema>>, acc |-> TRUE]
             ELSE [r |-> [r1 EXCEPT !.ema = ema], pub |-> <<>>, acc |-> TRUE]

(* The TCP latency callback (update_latency closure of start_tcp) *)
tcp_update_latency(r) ==
    [r |-> r, pub |-> <<RawLatency(r)>>, acc |-> FALSE]

CallbackSkipped(r) == [r |-> r, pub |-> <<>>, acc |-> FALSE]

update_latency(r) ==
    IF env.tcp THEN tcp_update_latency(r) ELSE udp_update_latency(r)

----------------------------------------------------------------------------
(* Time *)

Elapse(dt) ==
    /\ \A h \in Hosts :
          env.tcp => (WithinHorizon(rz[h].sent, dt) /\ WithinHorizon(rz[h].recv, dt))
    /\ rz' = [h \in Hosts |-> OlderRz(rz[h], dt)]
    /\ cyc' = [start |-> Older(cyc.start, dt, CycCap),
               sleep |-> Max(0, cyc.sleep - dt)]
    /\ out' = NoEv
    /\ UNCHANGED <<mpc, SHOULD_EXIT, MANUAL_RESTARTED, SOLVING_PK_MISMATCH,
                   lock, cfg, env, pending, solvers, samples, rawR, q,
                   spawned, trav, wl>>

----------------------------------------------------------------------------
(* The orchestrator: the loop of start_all *)

CanLockNoMutex(h) == TRUE

CanLock(h) == lock = Free

SleepFor(elapsed) ==
    IF elapsed < CONNECT_TIMEOUT
    THEN ((CONNECT_TIMEOUT - elapsed) \div 1000) * 1000000
    ELSE 0

CycleTop ==
    /\ mpc = "top"
    /\ CanLock("main")
    /\ SOLVING_PK_MISMATCH' = NoHost
    /\ pending' = NoHost
    /\ solvers' = {}
    /\ cyc' = [cyc EXCEPT !.start = 0]
    /\ mpc' = "join"
    /\ IF ~env.stop
       THEN /\ SHOULD_EXIT' = FALSE
            /\ MANUAL_RESTARTED' = FALSE
            /\ rz' = [h \in Hosts |->
                        IF InList(h, get_rendezvous_servers(cfg))
                        THEN Spawned ELSE IdleRz]
       ELSE UNCHANGED <<SHOULD_EXIT, MANUAL_RESTARTED, rz>>
    /\ samples' = [h \in Hosts |-> 0]
    /\ out' = Ev("main", "cycle_top", <<>>, <<>>)
    /\ UNCHANGED <<lock, cfg, env, rawR, q, spawned, trav, wl>>

(* RendezvousMediator::restart, as called from outside the mediator *)
restart ==
    /\ SHOULD_EXIT' = TRUE
    /\ MANUAL_RESTARTED' = TRUE
    /\ out' = Ev("main", "restart", <<>>, <<>>)
    /\ UNCHANGED <<mpc, cyc, SOLVING_PK_MISMATCH, lock, cfg, env, rz, pending,
                   solvers, samples, rawR, q, spawned, trav, wl>>

(* The option "stop-service" is set or cleared *)
SetStopService(b) ==
    /\ env.stop # b
    /\ env' = [env EXCEPT !.stop = b]
    /\ out' = Ev("main", "stop_service", <<>>, <<>>)
    /\ UNCHANGED <<mpc, cyc, SHOULD_EXIT, MANUAL_RESTARTED, SOLVING_PK_MISMATCH,
                   lock, cfg, rz, pending, solvers, samples, rawR, q, spawned, trav, wl>>

AnyJoined == \E h \in Hosts : rz[h].pc \in {"idle", "done", "panicked"}

(* join_all(futs).await: every task of the cycle has ended, by returning   *)
(* or by a panic                                                           *)
AllJoined == \A h \in Hosts : rz[h].pc \in {"idle", "done", "panicked"}

CycleJoin ==
    /\ mpc = "join"
    /\ AllJoined
    /\ cfg' = reset_online(cfg)
    /\ rz' = [h \in Hosts |-> IdleRz]
    /\ IF ~MANUAL_RESTARTED /\ as_millis(cyc.start) < CONNECT_TIMEOUT
       THEN /\ mpc' = "sleep"
            /\ cyc' = [cyc EXCEPT !.sleep = SleepFor(as_millis(cyc.start))]
       ELSE /\ mpc' = "top"
            /\ UNCHANGED cyc
    /\ out' = Ev("main", "cycle_join", <<>>, <<>>)
    /\ UNCHANGED <<SHOULD_EXIT, MANUAL_RESTARTED, SOLVING_PK_MISMATCH, lock,
                   env, pending, solvers, samples, rawR, q, spawned, trav, wl>>

CycleWake ==
    /\ mpc = "sleep"
    /\ cyc.sleep = 0
    /\ mpc' = "top"
    /\ out' = Ev("main", "cycle_wake", <<>>, <<>>)
    /\ UNCHANGED <<cyc, SHOULD_EXIT, MANUAL_RESTARTED, SOLVING_PK_MISMATCH,
                   lock, cfg, env, rz, pending, solvers, samples, rawR, q,
                   spawned, trav, wl>>

----------------------------------------------------------------------------
(* Inbound payloads.  t is the variant of the parsed union; "Empty" is a   *)
(* zero-length payload, "Garbage" bytes that do not parse.                 *)

Msg(t, request_pk, result, keep_alive, servers, serial) ==
    [t |-> t, request_pk |-> request_pk, result |-> result,
     keep_alive |-> keep_alive, servers |-> servers, serial |-> serial]

Plain(t) == Msg(t, FALSE, "OK", 0, <<>>, 0)

RegisterPeerResponses ==
    {Msg("RegisterPeerResponse", b, "OK", 0, <<>>, 0) : b \in BOOLEAN}

RegisterPkResponses ==
    {Msg("RegisterPkResponse", FALSE, res, ka, <<>>, 0) :
        res \in {"OK", "UUID_MISMATCH", "OTHER"}, ka \in {0, 30}}

ConfigureUpdates ==
    {Msg("ConfigureUpdate", FALSE, "OK", 0, l, n) :
        l \in {<<HostA>>, <<HostB>>}, n \in {0, 1}}

TraversalKinds == {"PunchHole", "RequestRelay", "FetchLocalAddr"}

Traversals == {Plain("PunchHole"), Plain("RequestRelay"), Plain("FetchLocalAddr")}

(* A traversal message with the fields its handler reads.  A relay server  *)
(* is a host name and a port, NoRelay the empty String; socket_addr is the *)
(* mangled peer address.                                                   *)
NoRelay == <<>>

Traversal(t, nat_type, relay_server, uuid, secure) ==
    [t |-> t, request_pk |-> FALSE, result |-> "OK", keep_alive |-> 0,
     servers |-> <<>>, serial |-> 0, socket_addr |-> "peer",
     nat_type |-> nat_type, relay_server |-> relay_server, uuid |-> uuid,
     secure |-> secure]

LocalRelay == <<"relay.lan", 21117>>
ServerRelay == <<"relay.example.com", 21117>>

(* the handler of m is followed step by step; the handler of a message     *)
(* given by its kind alone is followed to its end only                     *)
Followed(m) == "socket_addr" \in DOMAIN m

RENDEZVOUS_PORT == 21116

(* check_port(&host, RENDEZVOUS_PORT) for a host given without a port *)
check_port(h) == <<h, RENDEZVOUS_PORT>>

(* tokio::spawn(async move { rz.handle_...(m, server) }) with rz a clone   *)
(* of the session                                                          *)
Task(h, m) ==
    [pc |-> "begin", host |-> check_port(h), addr |-> rz[h].addr, m |-> m,
     relay_server |-> NoRelay, uuid |-> "", secure |-> FALSE,
     initiate |-> FALSE, calls |-> <<>>]

Payloads ==
    RegisterPeerResponses \cup RegisterPkResponses \cup ConfigureUpdates
    \cup Traversals \cup {Plain("Empty"), Plain("Garbage"), Plain("Other")}

NeverEmpty(p) == FALSE

AlwaysParses(p) == TRUE

is_empty(p) == p.t = "Empty"

Parses(p) == p.t # "Garbage"

----------------------------------------------------------------------------
(* Frames *)

SetRz(h, r) == rz' = [rz EXCEPT ![h] = r]

Orchestrator == <<mpc, cyc, env, rawR, q, wl>>

Static == <<Orchestrator, spawned, trav>>

Flags == <<SHOULD_EXIT, MANUAL_RESTARTED>>

Guard == <<SOLVING_PK_MISMATCH, lock, pending, solvers>>

(* rpr.keep_alive * 1000 in i32 with wrap-around, for rpr.keep_alive > 0.  *)
(* The product is computed on the two 16-bit halves of the factor: hi is   *)
(* the upper half of the 32-bit result, lo the lower.                      *)
WrappingMul1000(ka) ==
    LET low == (ka % 65536) * 1000
        hi == ((ka \div 65536) * 1000 + low \div 65536) % 65536
        lo == low % 65536
    IN  (IF hi >= 32768 THEN hi - 65536 ELSE hi) * 65536 + lo

(* the product does not fit in i32 *)
Overflows(ka) ==
    LET w == WrappingMul1000(ka)
    IN  ~(w % 1000 = 0 /\ w \div 1000 = ka)

(* if rpr.keep_alive > 0 { self.keep_alive = rpr.keep_alive * 1000 }: an   *)
(* overflow panics in a build with overflow checks and wraps in one        *)
(* without                                                                 *)
KeepAlive(r, ka) ==
    IF ka > 0
    THEN IF env.checks /\ Overflows(ka)
         THEN [r EXCEPT !.pc = "panicked", !.ka = 0]
         ELSE [r EXCEPT !.keep_alive = WrappingMul1000(ka), !.ka = 0]
    ELSE [r EXCEPT !.ka = 0]

(* handle_resp returns Ok(()) to the loop *)
Resume(r) == IF r.pc = "panicked" THEN r ELSE [r EXCEPT !.pc = "loop"]

GuardEmptyOnly(solving, h) == solving = NoHost

GuardAllows(solving, h) == solving = NoHost \/ solving = h

ExitNotStored == FALSE

ExitStore == TRUE

(* The task spawned by start_all: once start() has returned, store SHOULD_EXIT *)
TaskExit(h) ==
    /\ rz[h].pc \in {"ret_ok", "ret_err"}
    /\ SHOULD_EXIT' = (IF ExitStore THEN TRUE ELSE SHOULD_EXIT)
    /\ SetRz(h, [IdleRz EXCEPT !.pc = "done"])
    /\ out' = Ev(h, "task_exit", <<>>, <<>>)
    /\ UNCHANGED <<Static, MANUAL_RESTARTED, Guard, cfg, samples>>

----------------------------------------------------------------------------
(* handle_resp, up to its first await *)

AlwaysRestart(v0, v1) == TRUE

ServersChanged(v0, v1) == v0 # v1

Bump(n) == Min(n + 1, MaxSamples)

handle_resp(h, m, r) ==
    LET ul == update_latency(r)
        c1 == update_latency_cfg(cfg, h, ul.pub)
        n1 == [samples EXCEPT ![h] = IF ul.acc THEN Bump(@) ELSE @]
    IN
    CASE m.t = "RegisterPeerResponse" ->
            /\ SetRz(h, [ul.r EXCEPT !.pc = IF m.request_pk THEN "pk_send" ELSE "loop"])
            /\ cfg' = c1
            /\ samples' = n1
            /\ out' = Ev(h, m.t, <<>>, ul.pub)
            /\ UNCHANGED <<Static, Flags, Guard>>
      [] m.t = "RegisterPkResponse" /\ m.result = "OK" ->
            /\ SetRz(h, [ul.r EXCEPT !.pc = "ok_lock", !.ka = m.keep_alive])
            /\ cfg' = [c1 EXCEPT !.key_confirmed = TRUE,
                                 !.hkc[get_host_prefix(h)] = TRUE]
            /\ samples' = n1
            /\ pending' = IF pending = h THEN NoHost ELSE pending
            /\ out' = [Ev(h, "RegisterPkResponse_OK", <<>>, ul.pub) EXCEPT
                            !.arg = <<m.keep_alive>>]
            /\ UNCHANGED <<Static, Flags, SOLVING_PK_MISMATCH, lock, solvers>>
      [] m.t = "RegisterPkResponse" /\ m.result = "UUID_MISMATCH" ->
            /\ SetRz(h, [ul.r EXCEPT !.pc = "mm_lock", !.ka = m.keep_alive])
            /\ cfg' = c1
            /\ samples' = n1
            /\ out' = [Ev(h, "RegisterPkResponse_UUID_MISMATCH", <<>>, ul.pub) EXCEPT
                            !.arg = <<m.keep_alive>>]
            /\ UNCHANGED <<Static, Flags, Guard>>
      [] m.t = "RegisterPkResponse" /\ m.result = "OTHER" ->
            /\ SetRz(h, KeepAlive(ul.r, m.keep_alive))
            /\ cfg' = c1
            /\ samples' = n1
            /\ out' = [Ev(h, "RegisterPkResponse_OTHER", <<>>, ul.pub) EXCEPT
                            !.arg = <<m.keep_alive>>]
            /\ UNCHANGED <<Static, Flags, Guard>>
      [] m.t = "ConfigureUpdate" ->
            LET v0 == get_rendezvous_servers(cfg)
                c2 == [cfg EXCEPT !.servers = m.servers, !.serial = m.serial]
            IN  /\ cfg' = c2
                /\ IF ServersChanged(v0, get_rendezvous_servers(c2))
                   THEN SHOULD_EXIT' = TRUE /\ MANUAL_RESTARTED' = TRUE
                   ELSE UNCHANGED Flags
                /\ SetRz(h, r)
                /\ out' = EvArg(h, m.t, <<m.servers, m.serial>>)
                /\ UNCHANGED <<Static, Guard, samples>>
      [] m.t \in TraversalKinds ->
            \* PunchHole, RequestRelay, FetchLocalAddr: a detached task is
            \* spawned with a clone of the session
            /\ spawned < MaxTasks
            /\ spawned' = spawned + 1
            /\ trav' = IF Followed(m) /\ trav.pc = "idle"
                       THEN Task(h, m) ELSE trav
            /\ SetRz(h, r)
            /\ out' = Ev(h, m.t, <<>>, <<>>)
            /\ UNCHANGED <<Orchestrator, Flags, Guard, cfg, samples>>
      [] OTHER ->
            \* an empty or unknown union: nothing
            /\ SetRz(h, r)
            /\ out' = Ev(h, m.t, <<>>, <<>>)
            /\ UNCHANGED <<Static, Flags, Guard, cfg, samples>>

(* register_pk awaited from handle_resp (request_pk) *)
PkSend(h, ok) ==
    /\ rz[h].pc = "pk_send"
    /\ SetRz(h, [rz[h] EXCEPT !.pc = IF ok THEN "loop" ELSE "ret_err"])
    /\ out' = EvSend(h, "register_pk", <<Snd("RegisterPk", rz[h].laddr)>>, ok)
    /\ UNCHANGED <<Static, Flags, Guard, cfg, samples>>

(* RegisterPkResponse OK: *SOLVING_PK_MISMATCH.lock().await = "" *)
OkAcquire(h) ==
    /\ rz[h].pc = "ok_lock"
    /\ CanLock(h)
    /\ lock' = h
    /\ SetRz(h, [rz[h] EXCEPT !.pc = "ok_held"])
    /\ out' = Ev(h, "ok_acquire", <<>>, <<>>)
    /\ UNCHANGED <<Static, Flags, SOLVING_PK_MISMATCH, pending, solvers, cfg, samples>>

OkClear(h) ==
    /\ rz[h].pc = "ok_held"
    /\ SOLVING_PK_MISMATCH' = NoHost
    /\ solvers' = {}
    /\ lock' = Free
    /\ SetRz(h, Resume(KeepAlive(rz[h], rz[h].ka)))
    /\ out' = Ev(h, "ok_clear", <<>>, <<>>)
    /\ UNCHANGED <<Static, Flags, pending, cfg, samples>>

(* handle_uuid_mismatch: lock and check; then write and unlock; then send.  *)
(* The event of the recovering step carries the call of Config::update_id. *)
MmAcquire(h) ==
    /\ rz[h].pc = "mm_lock"
    /\ CanLock(h)
    /\ lock' = h
    /\ SetRz(h, [rz[h] EXCEPT !.pc = "mm_held",
                              !.flag = GuardAllows(SOLVING_PK_MISMATCH, h)])
    /\ out' = Ev(h, "mm_acquire", <<>>, <<>>)
    /\ UNCHANGED <<Static, Flags, SOLVING_PK_MISMATCH, pending, solvers, cfg, samples>>

MmCritical(h) ==
    /\ rz[h].pc = "mm_held"
    /\ lock' = Free
    /\ IF rz[h].flag
       THEN /\ cfg' = [cfg EXCEPT !.key_confirmed = FALSE]
            /\ SOLVING_PK_MISMATCH' = h
            /\ pending' = h
            /\ solvers' = solvers \cup {h}
            /\ SetRz(h, [rz[h] EXCEPT !.pc = "mm_send", !.flag = FALSE])
            /\ out' = [Ev(h, "mm_recover", <<>>, <<>>) EXCEPT
                            !.arg = <<"update_id">>]
       ELSE /\ SetRz(h, Resume(KeepAlive(rz[h], rz[h].ka)))
            /\ out' = Ev(h, "mm_skip", <<>>, <<>>)
            /\ UNCHANGED <<SOLVING_PK_MISMATCH, pending, solvers, cfg>>
    /\ UNCHANGED <<Static, Flags, samples>>

MmSend(h, ok) ==
    /\ rz[h].pc = "mm_send"
    /\ SetRz(h, IF ok THEN Resume(KeepAlive(rz[h], rz[h].ka))
                ELSE [rz[h] EXCEPT !.pc = "ret_err"])
    /\ out' = EvSend(h, "mm_send", <<Snd("RegisterPk", rz[h].laddr)>>, ok)
    /\ UNCHANGED <<Static, Flags, Guard, cfg, samples>>

----------------------------------------------------------------------------
(* start_udp *)

Unreachable == 0 - 1
Unknown == 0

UdpStart(h, ok) ==
    /\ rz[h].pc = "start"
    /\ ~env.tcp
    /\ SetRz(h, IF ok THEN [Spawned EXCEPT !.pc = "loop", !.dns = 0]
                ELSE [Spawned EXCEPT !.pc = "ret_err"])
    /\ out' = Ev(h, "start_udp", <<>>, <<>>)
    /\ UNCHANGED <<Static, Flags, Guard, cfg, samples>>

Expired(r) == IF r.resp = None THEN TRUE ELSE as_millis(r.resp) >= REG_INTERVAL

InFlight(r) == r.sent # None

TimedOut(r) == IF r.sent = None THEN FALSE ELSE as_millis(r.sent) >= r.reg_timeout

BackoffUncapped(timeout, reg_timeout) ==
    IF env.public /\ timeout
    THEN reg_timeout + MIN_REG_TIMEOUT
    ELSE reg_timeout

Backoff(timeout, reg_timeout) ==
    IF env.public /\ timeout /\ reg_timeout < MAX_REG_TIMEOUT
    THEN reg_timeout + MIN_REG_TIMEOUT
    ELSE reg_timeout

Sentinel(timeout, fails) ==
    IF timeout /\ fails >= MAX_FAILS2 THEN <<Unreachable>>
    ELSE IF timeout /\ fails >= MAX_FAILS1 THEN <<Unknown>>
    ELSE <<>>

RebindsEveryTime(timeout, fails, r) == timeout /\ fails >= MAX_FAILS2

Rebinds(timeout, fails, r) ==
    timeout /\ fails >= MAX_FAILS2 /\ as_millis(r.dns) > DNS_INTERVAL

TickNeverExits == FALSE

TickExits == SHOULD_EXIT

(* fails += 1.  The counter is compared with MAX_FAILS1 and MAX_FAILS2     *)
(* only: from MaxFails on it is kept at MaxFails.                          *)
Failed(timeout, fails) ==
    IF timeout THEN Min(fails + 1, MaxFails) ELSE fails

(* The timer branch of the select, up to its first await: that of          *)
(* rebind_udp_for when the host is to be re-resolved, else that of the     *)
(* mutex in register_peer.  now is the Instant of line 216.                *)
UdpTick(h) ==
    LET r == rz[h]
        timeout == TimedOut(r)
        fails == Failed(timeout, r.fails)
        pub == Sentinel(timeout, fails)
        r1 == [r EXCEPT !.reg_timeout = Backoff(timeout, r.reg_timeout)]
        r2 == [r1 EXCEPT !.fails = fails,
                         !.old = IF pub # <<>> THEN 0 ELSE @,
                         !.now = 0]
    IN
    /\ r.pc = "loop"
    /\ ~env.tcp
    /\ IF TickExits
       THEN /\ SetRz(h, [r EXCEPT !.pc = "ret_ok"])
            /\ out' = Ev(h, "tick_exit", <<>>, <<>>)
            /\ UNCHANGED cfg
       ELSE IF timeout \/ (r.sent = None /\ Expired(r))
       THEN /\ cfg' = update_latency_cfg(cfg, h, pub)
            /\ SetRz(h, [r2 EXCEPT !.pc = IF Rebinds(timeout, fails, r)
                                          THEN "rebind" ELSE "rp_lock"])
            /\ out' = Ev(h, "tick_register", <<>>, pub)
       ELSE /\ SetRz(h, r1)
            /\ out' = Ev(h, "tick_idle", <<>>, <<>>)
            /\ UNCHANGED cfg
    /\ UNCHANGED <<Static, Flags, Guard, samples>>

(* socket_client::rebind_udp_for(&rz.host).await? has returned: dnsres is  *)
(* "new" (Some: the socket and rz.addr are replaced), "same" (None) or     *)
(* "err"; then last_dns_check = Instant::now() and register_peer.          *)
UdpRebind(h, dnsres) ==
    LET r == rz[h]
    IN
    /\ r.pc = "rebind"
    /\ SetRz(h, IF dnsres = "err" THEN [r EXCEPT !.pc = "ret_err", !.now = None]
                ELSE [r EXCEPT !.pc = "rp_lock", !.dns = 0,
                               !.addr = IF dnsres = "new" THEN 1 - @ ELSE @])
    /\ out' = EvArg(h, "rebind", <<dnsres>>)
    /\ UNCHANGED <<Static, Flags, Guard, cfg, samples>>

(* register_peer: lock and check the guard; drop the lock; send *)
RpAcquire(h) ==
    /\ rz[h].pc = "rp_lock"
    /\ CanLock(h)
    /\ lock' = h
    /\ SetRz(h, [rz[h] EXCEPT !.pc = "rp_held",
                              !.flag = GuardAllows(SOLVING_PK_MISMATCH, h)])
    /\ out' = Ev(h, "rp_acquire", <<>>, <<>>)
    /\ UNCHANGED <<Static, Flags, SOLVING_PK_MISMATCH, pending, solvers, cfg, samples>>

RegisterKindGlobalOnly(h) ==
    IF ~cfg.key_confirmed THEN "RegisterPk" ELSE "RegisterPeer"

(* the message register_peer builds once the guard has let it pass *)
RegisterKind(h) ==
    IF KeyUnconfirmed(cfg, get_host_prefix(h)) THEN "RegisterPk" ELSE "RegisterPeer"

RpHoldAcrossSend(h) ==
    /\ rz[h].pc = "rp_held"
    /\ lock' = (IF rz[h].flag THEN lock ELSE Free)
    /\ SetRz(h, IF rz[h].flag
                THEN [rz[h] EXCEPT !.pc = "rp_send", !.flag = FALSE,
                                   !.kind = RegisterKind(h)]
                ELSE [rz[h] EXCEPT !.pc = "loop", !.sent = rz[h].now,
                                   !.now = None])
    /\ out' = Ev(h, IF rz[h].flag THEN "rp_release" ELSE "rp_skip", <<>>, <<>>)
    /\ UNCHANGED <<Static, Flags, SOLVING_PK_MISMATCH, pending, solvers, cfg, samples>>

(* The guard is dropped; if it let the host pass, the key flags are read   *)
(* and the message is built and handed to the socket: the next await is    *)
(* that of the send.                                                       *)
RpRelease(h) ==
    /\ rz[h].pc = "rp_held"
    /\ lock' = Free
    /\ SetRz(h, IF rz[h].flag
                THEN [rz[h] EXCEPT !.pc = "rp_send", !.flag = FALSE,
                                   !.kind = RegisterKind(h)]
                ELSE [rz[h] EXCEPT !.pc = "loop", !.sent = rz[h].now,
                                   !.now = None])
    /\ out' = Ev(h, IF rz[h].flag THEN "rp_release" ELSE "rp_skip", <<>>, <<>>)
    /\ UNCHANGED <<Static, Flags, SOLVING_PK_MISMATCH, pending, solvers, cfg, samples>>

(* the send of the message built by RpRelease has completed *)
RpSend(h, ok) ==
    /\ rz[h].pc = "rp_send"
    /\ SetRz(h, IF ok THEN [rz[h] EXCEPT !.pc = "loop", !.sent = rz[h].now,
                                         !.now = None, !.kind = ""]
                ELSE [rz[h] EXCEPT !.pc = "ret_err", !.now = None, !.kind = ""])
    /\ out' = Ev(h, "register_peer", <<Snd(rz[h].kind, rz[h].laddr)>>, <<>>)
    /\ UNCHANGED <<Static, Flags, Guard, cfg, samples>>

(* The socket branch of the select *)
UdpRecv(h, p) ==
    /\ rz[h].pc = "loop"
    /\ ~env.tcp
    /\ IF Parses(p)
       THEN handle_resp(h, p, rz[h])
       ELSE /\ out' = Ev(h, "not_protobuf", <<>>, <<>>)
            /\ UNCHANGED <<rz, Static, Flags, Guard, cfg, samples>>

UdpRecvErr(h) ==
    /\ rz[h].pc = "loop"
    /\ ~env.tcp
    /\ SetRz(h, [rz[h] EXCEPT !.pc = "ret_err"])
    /\ out' = Ev(h, "recv_err", <<>>, <<>>)
    /\ UNCHANGED <<Static, Flags, Guard, cfg, samples>>

----------------------------------------------------------------------------
(* start_tcp *)

TcpStart(h, ok) ==
    /\ rz[h].pc = "start"
    /\ env.tcp
    /\ SetRz(h, IF ok THEN [Spawned EXCEPT !.pc = "loop", !.recv = 0]
                ELSE [Spawned EXCEPT !.pc = "ret_err"])
    /\ cfg' = IF ok THEN [cfg EXCEPT !.hkc[h] = FALSE] ELSE cfg
    /\ out' = Ev(h, "start_tcp", <<>>, <<>>)
    /\ UNCHANGED <<Static, Flags, Guard, samples>>

(* last_recv_msg.elapsed().as_millis() as u64 > rz.keep_alive as u64 * 3   *)
(* / 2.  A negative keep_alive converts to more than 2^63 and the wrapped  *)
(* product, halved, is still above any age; a keep_alive above the largest *)
(* age is not reached by 2/3 of any age (and its product with 3 is not     *)
(* computed).                                                              *)
Dead(r) ==
    IF r.keep_alive < 0 \/ r.keep_alive > as_millis(Horizon) THEN FALSE
    ELSE as_millis(r.recv) > (r.keep_alive * 3) \div 2

SinceSent(r) == IF r.sent = None THEN REG_INTERVAL ELSE as_millis(r.sent)

TcpTick(h) ==
    LET r == rz[h]
    IN
    /\ r.pc = "loop"
    /\ env.tcp
    /\ SetRz(h, IF TickExits THEN [r EXCEPT !.pc = "ret_ok"]
                ELSE IF Dead(r) THEN [r EXCEPT !.pc = "ret_err"]
                ELSE IF KeyUnconfirmed(cfg, h) /\ SinceSent(r) >= REG_INTERVAL
                     THEN [r EXCEPT !.pc = "tpk_send"]
                     ELSE r)
    /\ out' = Ev(h, IF TickExits THEN "tick_exit" ELSE "tick_tcp", <<>>, <<>>)
    /\ UNCHANGED <<Static, Flags, Guard, cfg, samples>>

TcpPkSend(h, ok) ==
    /\ rz[h].pc = "tpk_send"
    /\ SetRz(h, IF ok THEN [rz[h] EXCEPT !.pc = "loop", !.sent = 0]
                ELSE [rz[h] EXCEPT !.pc = "ret_err"])
    /\ out' = Ev(h, "register_pk", <<Snd("RegisterPk", rz[h].laddr)>>, <<>>)
    /\ UNCHANGED <<Static, Flags, Guard, cfg, samples>>

(* The stream branch of the select, up to its first await: for an empty    *)
(* payload that of the echo, conn.send_bytes(Bytes::new())                 *)
TcpRecv(h, p) ==
    LET r == [rz[h] EXCEPT !.recv = 0]
    IN
    /\ rz[h].pc = "loop"
    /\ env.tcp
    /\ IF is_empty(p)
       THEN /\ SetRz(h, [r EXCEPT !.pc = "hb_send"])
            /\ out' = Ev(h, "heartbeat", <<>>, <<>>)
            /\ UNCHANGED <<Static, Flags, Guard, cfg, samples>>
       ELSE IF Parses(p)
       THEN handle_resp(h, p, r)
       ELSE /\ SetRz(h, [r EXCEPT !.pc = "ret_err"])
            /\ out' = Ev(h, "parse_err", <<>>, <<>>)
            /\ UNCHANGED <<Static, Flags, Guard, cfg, samples>>

(* the echo has completed: continue, or the error ends the loop *)
TcpEcho(h, ok) ==
    /\ rz[h].pc = "hb_send"
    /\ SetRz(h, [rz[h] EXCEPT !.pc = IF ok THEN "loop" ELSE "ret_err"])
    /\ out' = EvSend(h, "echo", <<Snd("Empty", rz[h].laddr)>>, ok)
    /\ UNCHANGED <<Static, Flags, Guard, cfg, samples>>

TcpReset(h) ==
    /\ rz[h].pc = "loop"
    /\ env.tcp
    /\ SetRz(h, [rz[h] EXCEPT !.pc = "ret_err", !.recv = 0])
    /\ out' = Ev(h, "reset", <<>>, <<>>)
    /\ UNCHANGED <<Static, Flags, Guard, cfg, samples>>

----------------------------------------------------------------------------
(* Detached traversal handlers (handle_punch_hole, handle_request_relay,   *)
(* handle_intranet): each runs on a clone of the session in a task of its  *)
(* own; allow_err! logs a failure and the task ends.  ok is the outcome.   *)

FailurePropagates(ok) == ~ok

(* allow_err!: the result of the handler is logged and dropped *)
Propagates(ok) == FALSE

HandlerDone(ok) ==
    /\ spawned > (IF trav.pc = "idle" THEN 0 ELSE 1)
    /\ spawned' = spawned - 1
    /\ SHOULD_EXIT' = (SHOULD_EXIT \/ Propagates(ok))
    /\ out' = EvArg("handler", "handler_done", <<ok>>)
    /\ UNCHANGED <<Orchestrator, MANUAL_RESTARTED, Guard, cfg, rz, samples,
                   trav>>

(* The followed handler.  calls is the sequence of the calls it has made   *)
(* outside the mediator, each with its arguments and, where the code       *)
(* looks at it, its result.                                                *)
RELAY_PORT_OFFSET == 1

increase_port(host, offset) == <<host[1], host[2] + offset>>

new_v4 == "new_v4"

Call(f, args, ok) == [f |-> f, args |-> args, ok |-> ok]

get_relay_server(option, provided, host) ==
    IF option # NoRelay THEN option
    ELSE IF provided # NoRelay THEN provided
    ELSE increase_port(host, RELAY_PORT_OFFSET)

is_ipv4(addr) == env.ipv4

ForcedRelayPeerOnly(t) ==
    IF t.m.t = "PunchHole" THEN t.m.nat_type = "SYMMETRIC"
    ELSE IF t.m.t = "FetchLocalAddr" THEN ~is_ipv4(t.addr)
    ELSE TRUE

(* the handler goes to create_relay without trying the direct path *)
ForcedRelay(t) ==
    IF t.m.t = "PunchHole"
    THEN t.m.nat_type = "SYMMETRIC" \/ env.nat = "SYMMETRIC"
    ELSE IF t.m.t = "FetchLocalAddr" THEN ~is_ipv4(t.addr)
    ELSE TRUE

TravFrame == <<Orchestrator, Flags, Guard, cfg, rz, samples>>

(* The handler up to its first await: the relay server is resolved and     *)
(* the path chosen; create_relay gets its arguments.                       *)
TravBegin ==
    LET t == trav
        rs == IF t.m.t = "RequestRelay" THEN t.m.relay_server
              ELSE get_relay_server(env.relay, t.m.relay_server, t.host)
    IN
    /\ t.pc = "begin"
    /\ trav' = IF ForcedRelay(t)
               THEN [t EXCEPT !.pc = "relay_connect", !.relay_server = rs,
                       !.uuid = IF t.m.t = "RequestRelay" THEN t.m.uuid
                                ELSE new_v4,
                       !.secure = IF t.m.t = "RequestRelay" THEN t.m.secure
                                  ELSE TRUE,
                       !.initiate = t.m.t # "RequestRelay"]
               ELSE [t EXCEPT !.pc = "connect", !.relay_server = rs]
    /\ out' = Ev("handler", "trav_begin", <<>>, <<>>)
    /\ UNCHANGED <<TravFrame, spawned>>

(* connect_tcp(&*self.host, CONNECT_TIMEOUT).await?  In handle_intranet ok *)
(* is also the result of parsing the local address of the new socket.      *)
TravConnect(ok) ==
    LET t == trav
        c == Call("connect_tcp", <<t.host>>, ok)
    IN
    /\ t.pc \in {"relay_connect", "connect"}
    /\ trav' = [t EXCEPT !.calls = Append(@, c),
                         !.pc = IF ~ok THEN "err"
                                ELSE IF t.pc = "relay_connect" THEN "relay_send"
                                ELSE IF t.m.t = "PunchHole" THEN "preconnect"
                                ELSE "send"]
    /\ out' = Ev("handler", "trav_connect", <<>>, <<>>)
    /\ UNCHANGED <<TravFrame, spawned>>

PreconnectFatal(ok) == IF ok THEN "send" ELSE "err"

(* allow_err!(connect_tcp_local(peer_addr, Some(local_addr), 30).await):   *)
(* the result is logged and dropped                                        *)
PreconnectResult(ok) == "send"

TravPreconnect(ok) ==
    LET t == trav
        c == Call("connect_tcp_local", <<t.m.socket_addr, "local_addr">>, ok)
    IN
    /\ t.pc = "preconnect"
    /\ trav' = [t EXCEPT !.calls = Append(@, c), !.pc = PreconnectResult(ok)]
    /\ out' = Ev("handler", "trav_preconnect", <<>>, <<>>)
    /\ UNCHANGED <<TravFrame, spawned>>

RelayResponseAlwaysFull(t) ==
    [t |-> "RelayResponse", socket_addr |-> t.m.socket_addr,
     uuid |-> t.uuid, relay_server |-> t.relay_server, id |-> "id"]

(* the RelayResponse of create_relay; version is left out *)
RelayResponse(t) ==
    [t |-> "RelayResponse", socket_addr |-> t.m.socket_addr,
     uuid |-> IF t.initiate THEN t.uuid ELSE "",
     relay_server |-> IF t.initiate THEN t.relay_server ELSE NoRelay,
     id |-> IF t.initiate THEN "id" ELSE ""]

(* PunchHoleSent and LocalAddr of the direct paths *)
Notice(t) ==
    IF t.m.t = "PunchHole"
    THEN [t |-> "PunchHoleSent", socket_addr |-> t.m.socket_addr, id |-> "id",
          relay_server |-> t.relay_server, nat_type |-> env.nat]
    ELSE [t |-> "LocalAddr", socket_addr |-> t.m.socket_addr, id |-> "id",
          relay_server |-> t.relay_server, local_addr |-> "local_addr"]

(* The send, and after a successful send the call of the relay             *)
(* establisher (create_relay) or of the connection acceptor (direct path). *)
TravSend(ok) ==
    LET t == trav
        relay == t.pc = "relay_send"
        snd == Call("send", <<IF relay THEN RelayResponse(t) ELSE Notice(t)>>, ok)
        nxt == IF relay
               THEN Call("create_relay_connection",
                         <<t.relay_server, t.uuid, t.m.socket_addr, t.secure,
                           is_ipv4(t.addr)>>, TRUE)
               ELSE Call("accept_connection",
                         <<t.m.socket_addr, TRUE>>, TRUE)
    IN
    /\ t.pc \in {"relay_send", "send"}
    /\ trav' = [t EXCEPT !.calls = IF ok THEN @ \o <<snd, nxt>> ELSE Append(@, snd),
                         !.pc = IF ok THEN "run" ELSE "err"]
    /\ out' = Ev("handler", "trav_send", <<>>, <<>>)
    /\ UNCHANGED <<TravFrame, spawned>>

(* The handler returns (Ok once the establisher or the acceptor is done,   *)
(* Err after a failed connect or send) and its task ends.                  *)
TravDone ==
    /\ trav.pc \in {"run", "err"}
    /\ spawned' = spawned - 1
    /\ trav' = IdleTrav
    /\ SHOULD_EXIT' = (SHOULD_EXIT \/ Propagates(trav.pc = "run"))
    /\ out' = EvArg("handler", "handler_done", <<trav.pc = "run">>)
    /\ UNCHANGED <<Orchestrator, MANUAL_RESTARTED, Guard, cfg, rz, samples>>

----------------------------------------------------------------------------
(* query_online_states and query_online_states_.  The ages of the two      *)
(* query_begin Instants are in milliseconds and saturate just above        *)
(* QUERY_TIMEOUT.                                                          *)

QUERY_TIMEOUT == 3000
OUTER_SLEEP == 1500
INNER_SLEEP == 300000

QueryCap == QUERY_TIMEOUT + 1

IdleQ ==
    [pc |-> "idle", ids |-> <<>>, begin |-> 0, ibegin |-> 0, calls |-> 0,
     tries |-> 0, onlines |-> <<>>, offlines |-> <<>>, err |-> FALSE]

QAge(r, dt) ==
    [r EXCEPT !.begin = Min(@ + dt, QueryCap), !.ibegin = Min(@ + dt, QueryCap)]

RECURSIVE BitAnd(_, _)
BitAnd(a, b) ==
    IF a = 0 \/ b = 0 THEN 0
    ELSE (a % 2) * (b % 2) + 2 * BitAnd(a \div 2, b \div 2)

Shl(x, n) == x * 2^n

BitValueLsbFirst(i) == Shl(1, i % 8)

BitValue(i) == Shl(1, 7 - (i % 8))

(* states[i / 8] panics when the vector is too short *)
IndexOk(ids, states) == \A i \in 0..(Len(ids) - 1) : i \div 8 < Len(states)

RECURSIVE Decode(_, _, _, _, _)
Decode(ids, states, i, onlines, offlines) ==
    IF i >= Len(ids) THEN <<onlines, offlines>>
    ELSE IF BitAnd(states[i \div 8 + 1], BitValue(i)) = BitValue(i)
         THEN Decode(ids, states, i + 1, Append(onlines, ids[i + 1]), offlines)
         ELSE Decode(ids, states, i + 1, onlines, Append(offlines, ids[i + 1]))

QFrame == <<mpc, cyc, SHOULD_EXIT, MANUAL_RESTARTED, SOLVING_PK_MISMATCH, lock,
            cfg, env, rz, pending, solvers, samples, rawR, spawned, trav, wl>>

QEv(op, arg) == EvArg("query", op, arg)

(* Ok((onlines, offlines)) from query_online_states_: f is called, break *)
Callback(r, onlines, offlines) ==
    [r EXCEPT !.pc = "done", !.calls = @ + 1,
              !.onlines = onlines, !.offlines = offlines]

AfterErrNoTimeout(r) == [r EXCEPT !.pc = "osleep"]

(* Err(e) from query_online_states_: log, then the timeout test of the     *)
(* outer loop; err: the query gave up, f is never called                   *)
AfterErr(r) ==
    IF r.begin > QUERY_TIMEOUT
    THEN [r EXCEPT !.pc = "done", !.err = TRUE]
    ELSE [r EXCEPT !.pc = "osleep"]

ExitAllOffline(r) == Callback(r, <<>>, r.ids)

(* SHOULD_EXIT seen by query_online_states_: Ok((Vec::new(), Vec::new())) *)
ExitResult(r) == Callback(r, <<>>, <<>>)

ConnectFailedRetries(r) == AfterErr(r)

(* create_online_stream failed: Ok((vec![], ids.clone())) *)
ConnectFailed(r) == Callback(r, <<>>, r.ids)

(* socket.send failed: Ok((vec![], ids.clone())) *)
SendFailed(r) == Callback(r, <<>>, r.ids)

QueryStart(ids) ==
    /\ q.pc = "idle"
    /\ q' = [IdleQ EXCEPT !.pc = "outer", !.ids = ids]
    /\ out' = QEv("query_start", <<ids>>)
    /\ UNCHANGED QFrame

QOuterTop ==
    /\ q.pc = "outer"
    /\ IF SHOULD_EXIT
       THEN /\ q' = [q EXCEPT !.pc = "done"]
            /\ out' = QEv("query_exit", <<>>)
       ELSE /\ q' = [q EXCEPT !.pc = "inner", !.ibegin = 0,
                               !.tries = Min(@ + 1, MaxTries)]
            /\ out' = QEv("query_attempt", <<>>)
    /\ UNCHANGED QFrame

QInnerTop ==
    /\ q.pc = "inner"
    /\ IF SHOULD_EXIT
       THEN /\ q' = ExitResult(q)
            /\ out' = QEv("query_exit", <<>>)
       ELSE /\ q' = [q EXCEPT !.pc = "connect"]
            /\ out' = QEv("query_try", <<>>)
    /\ UNCHANGED QFrame

QConnect(ok) ==
    /\ q.pc = "connect"
    /\ q' = IF ok THEN [q EXCEPT !.pc = "send"] ELSE ConnectFailed(q)
    /\ out' = QEv("query_connect", <<ok>>)
    /\ UNCHANGED QFrame

QSend(ok) ==
    /\ q.pc = "send"
    /\ q' = IF ok THEN [q EXCEPT !.pc = "recv"] ELSE SendFailed(q)
    /\ out' = QEv("query_send", <<ok>>)
    /\ UNCHANGED QFrame

(* get_next_nonkeyexchange_msg returned after dt: resp.t is "None",        *)
(* "OnlineResponse" (with resp.states) or another variant                  *)
QRecv(resp, dt) ==
    LET r == QAge(q, dt)
    IN
    /\ q.pc = "recv"
    /\ q' = IF resp.t = "None" THEN AfterErr(r)
            ELSE IF resp.t = "OnlineResponse"
            THEN IF IndexOk(r.ids, resp.states)
                 THEN LET d == Decode(r.ids, resp.states, 0, <<>>, <<>>)
                      IN  Callback(r, d[1], d[2])
                 ELSE [r EXCEPT !.pc = "panicked"]
            ELSE IF r.ibegin > QUERY_TIMEOUT THEN AfterErr(r)
            ELSE [r EXCEPT !.pc = "isleep"]
    /\ out' = QEv("query_recv", <<resp>>)
    /\ UNCHANGED QFrame

QInnerSleep ==
    /\ q.pc = "isleep"
    /\ q' = [QAge(q, INNER_SLEEP) EXCEPT !.pc = "inner"]
    /\ out' = QEv("query_sleep", <<INNER_SLEEP>>)
    /\ UNCHANGED QFrame

QOuterSleep ==
    /\ q.pc = "osleep"
    /\ q' = [QAge(q, OUTER_SLEEP) EXCEPT !.pc = "outer"]
    /\ out' = QEv("query_sleep", <<OUTER_SLEEP>>)
    /\ UNCHANGED QFrame

----------------------------------------------------------------------------
(* The Wayland capture table (src/src/server/wayland.rs).  cap is the set  *)
(* of keys of CAP_DISPLAY_INFO, init is PIPEWIRE_INITIALIZED, num the      *)
(* number of displays of the last listing; calls gives for each calling    *)
(* thread the async call it is in (check_init or get_displays) and its     *)
(* position; op, arg and ret are the call that returned last, its argument *)
(* and its result.  A call holds the lock of the table from its test of    *)
(* the table to the end of its work on it, which is one action; the await  *)
(* of update_mouse_resolution and the second look at the table in          *)
(* get_displays come after the lock is released and are actions of their   *)
(* own.                                                                    *)

MaxDisplays == 4    \* displays of a listing

Callers == {"t1", "t2"}

IdleCall == [pc |-> "idle", op |-> "none"]

IdleWl ==
    [cap |-> {}, init |-> FALSE, num |-> 0,
     calls |-> [t \in Callers |-> IdleCall],
     op |-> "none", arg |-> 0, ret |-> "none"]

WlFrame ==
    <<mpc, cyc, SHOULD_EXIT, MANUAL_RESTARTED, SOLVING_PK_MISMATCH, lock, cfg,
      env, rz, out, pending, solvers, samples, rawR, q, spawned, trav>>

(* Display::all() failed *)
ListErr == 0 - 1

(* check_init on w, up to its return or to the await of                    *)
(* update_mouse_resolution; ret is "Ok", "Err" or "await".  listed is the  *)
(* result of Display::all(): ListErr, else the number of displays (an      *)
(* empty listing passes the ? of line 177); failAt is the index of the     *)
(* first display for which Capturer::new fails, listed if it fails for     *)
(* none; res says that the resolution found for the mouse is not empty     *)
(* (minx != maxx && miny != maxy).                                         *)
check_init(w, listed, failAt, res) ==
    IF env.x11 THEN [w EXCEPT !.ret = "Ok"]
    ELSE IF w.cap # {} THEN [w EXCEPT !.ret = "Ok"]
    ELSE IF w.init THEN [w EXCEPT !.ret = "Ok"]
    ELSE IF listed = ListErr THEN [w EXCEPT !.ret = "Err"]
    ELSE [w EXCEPT !.init = TRUE,
                   !.num = listed,
                   !.cap = 0..(failAt - 1),
                   !.ret = IF failAt < listed THEN "Err"
                           ELSE IF env.uinput /\ res THEN "await"
                           ELSE "Ok"]

Listings ==
    {<<ListErr, 0>>} \cup
    {l \in (0..MaxDisplays) \X (0..MaxDisplays) : l[2] <= l[1]}

(* check_init has returned r to thread t: to its caller, or to             *)
(* get_displays, which returns an Err and goes on after an Ok              *)
Returns(w, t, r) ==
    [w EXCEPT !.op = "check_init", !.arg = 0, !.ret = r,
              !.calls[t] = IF w.calls[t].op = "get_displays" /\ r = "Ok"
                           THEN [pc |-> "read", op |-> "get_displays"]
                           ELSE IdleCall]

Begin(t, op, listed, failAt, res) ==
    LET w0 == [wl EXCEPT !.calls[t] = [pc |-> "begin", op |-> op]]
        w == check_init(w0, listed, failAt, res)
    IN  /\ wl.calls[t].pc = "idle"
        /\ wl' = IF w.ret = "await"
                 THEN [w EXCEPT !.calls[t].pc = "mouse", !.ret = wl.ret]
                 ELSE Returns(w, t, w.ret)
        /\ UNCHANGED WlFrame

CheckInit(t, listed, failAt, res) == Begin(t, "check_init", listed, failAt, res)

(* get_displays: check_init().await?, then the first value of the table *)
GetDisplays(t, listed, failAt, res) ==
    Begin(t, "get_displays", listed, failAt, res)

(* allow_err!(update_mouse_resolution(..).await): whatever the result,     *)
(* check_init returns Ok                                                    *)
MouseDone(t) ==
    /\ wl.calls[t].pc = "mouse"
    /\ wl' = Returns(wl, t, "Ok")
    /\ UNCHANGED WlFrame

(* get_displays after check_init: CAP_DISPLAY_INFO.read(), values().next() *)
ReadDisplays(t) ==
    /\ wl.calls[t].pc = "read"
    /\ wl' = [wl EXCEPT !.calls[t] = IdleCall,
                        !.op = "get_displays", !.arg = 0,
                        !.ret = IF wl.cap # {} THEN "Ok" ELSE "Err"]
    /\ UNCHANGED WlFrame

GetPrimary ==
    /\ wl' = [wl EXCEPT !.op = "get_primary", !.arg = 0,
                        !.ret = IF wl.cap # {} THEN "Ok" ELSE "Err"]
    /\ UNCHANGED WlFrame

(* get_capturer_for_display(display_idx) *)
GetCapturer(idx) ==
    /\ wl' = [wl EXCEPT !.op = "get_capturer_for_display", !.arg = idx,
                        !.ret = IF env.x11 THEN "Err"
                                ELSE IF idx \in wl.cap THEN "Ok" ELSE "Err"]
    /\ UNCHANGED WlFrame

Clear ==
    /\ wl' = IF env.x11 THEN [wl EXCEPT !.op = "clear", !.arg = 0, !.ret = "none"]
             ELSE [wl EXCEPT !.cap = {}, !.init = FALSE,
                             !.op = "clear", !.arg = 0, !.ret = "none"]
    /\ UNCHANGED WlFrame

----------------------------------------------------------------------------
(* Specifications *)

InitCfg ==
    [key_confirmed |-> FALSE, hkc |-> [k \in Keys |-> FALSE],
     serial |-> 0, servers |-> <<>>, latency |-> [h \in Hosts |-> NoLat]]

InitEnv(servers, envs, raws) ==
    /\ mpc = "top"
    /\ cyc = [start |-> None, sleep |-> 0]
    /\ SHOULD_EXIT = FALSE
    /\ MANUAL_RESTARTED = FALSE
    /\ SOLVING_PK_MISMATCH = NoHost
    /\ lock = Free
    /\ cfg = [InitCfg EXCEPT !.servers = servers]
    /\ env \in envs
    /\ rz = [h \in Hosts |-> IdleRz]
    /\ out = NoEv
    /\ pending = NoHost
    /\ solvers = {}
    /\ samples = [h \in Hosts |-> 0]
    /\ rawR \in raws
    /\ q = IdleQ
    /\ spawned = 0
    /\ trav = IdleTrav
    /\ wl = IdleWl

InitWith(servers, tcps, publics, raws) ==
    InitEnv(servers,
            [tcp : tcps, public : publics, stop : {FALSE}, checks : {FALSE},
             relay : {NoRelay}, nat : {"ASYMMETRIC"}, ipv4 : {TRUE},
             x11 : {FALSE}, uinput : {FALSE}],
            raws)

Handlers(h) ==
    \/ TaskExit(h)
    \/ \E ok \in BOOLEAN : PkSend(h, ok)
    \/ OkAcquire(h)
    \/ OkClear(h)
    \/ MmAcquire(h)
    \/ MmCritical(h)
    \/ \E ok \in BOOLEAN : MmSend(h, ok)

UdpLoop(h, P) ==
    \/ \E ok \in BOOLEAN : UdpStart(h, ok)
    \/ \E p \in P : UdpRecv(h, p)
    \/ RpAcquire(h)
    \/ RpRelease(h)
    \/ \E ok \in BOOLEAN : RpSend(h, ok)
    \/ UdpRecvErr(h)

TcpLoop(h, P) ==
    \/ \E ok \in BOOLEAN : TcpStart(h, ok)
    \/ TcpTick(h)
    \/ \E ok \in BOOLEAN : TcpPkSend(h, ok)
    \/ \E p \in P : TcpRecv(h, p)
    \/ TcpReset(h)

Cycle == CycleTop \/ CycleJoin \/ CycleWake

SleepElapse == mpc = "sleep" /\ Elapse(CycCap)

(* Spec: two hosts, either transport, the registration responses; time     *)
(* passes only while the orchestrator sleeps between two cycles.           *)
GuardPayloads ==
    {Msg("RegisterPeerResponse", TRUE, "OK", 0, <<>>, 0),
     Msg("RegisterPkResponse", FALSE, "OK", 0, <<>>, 0),
     Msg("RegisterPkResponse", FALSE, "UUID_MISMATCH", 0, <<>>, 0)}

Init == InitWith(<<HostA, HostB>>, BOOLEAN, {TRUE}, {0})

Next ==
    \/ Cycle
    \/ SleepElapse
    \/ \E h \in Hosts :
        \/ Handlers(h)
        \/ UdpTick(h)
        \/ UdpLoop(h, GuardPayloads)
        \/ TcpLoop(h, GuardPayloads)

Spec == Init /\ [][Next]_vars

(* SpecOne: one host per cycle, either transport, every payload *)
InitOne == InitWith(<<>>, BOOLEAN, {TRUE}, {0})

NextOne ==
    \/ Cycle
    \/ SleepElapse
    \/ \E h \in Hosts :
        \/ Handlers(h)
        \/ UdpTick(h)
        \/ UdpLoop(h, Payloads)
        \/ TcpLoop(h, Payloads)
        \/ \E ok \in BOOLEAN : TcpEcho(h, ok)
    \/ \E ok \in BOOLEAN : HandlerDone(ok)

SpecOne == InitOne /\ [][NextOne]_vars

(* SpecUdp: the UDP loop of one host with time.  A short time (a round  *)
(* trip) passes right after a registration was sent, a long one at any     *)
(* moment.                                                                 *)
UdpPayloads == {Msg("RegisterPeerResponse", FALSE, "OK", 0, <<>>, 0)}

RoundTrips == {2000, 40000, MAX_LATENCY}

Waits == {MAX_REG_TIMEOUT * 1000}

InitUdp == InitWith(<<HostA>>, {FALSE}, BOOLEAN, {0})

ElapseUdp ==
    \/ \E dt \in Waits : Elapse(dt)
    \/ \E h \in Hosts, dt \in RoundTrips : rz[h].sent = 0 /\ Elapse(dt)

RecvUdp(h) ==
    \E p \in UdpPayloads :
        /\ samples[h] < MaxSamples
        /\ UdpRecv(h, p)

NextUdp ==
    \/ Cycle
    \/ ElapseUdp
    \/ \E h \in Hosts :
        \/ TaskExit(h)
        \/ \E ok \in BOOLEAN : UdpStart(h, ok)
        \/ UdpTick(h)
        \/ \E d \in {"same", "new", "err"} : UdpRebind(h, d)
        \/ RecvUdp(h)
        \/ RpAcquire(h)
        \/ RpRelease(h)
        \/ \E ok \in BOOLEAN : RpSend(h, ok)
        \/ UdpRecvErr(h)

SpecUdp == InitUdp /\ [][NextUdp]_vars

(* SpecEma: the UDP loop of one host under a constant round trip rawR:     *)
(* every registration is answered rawR microseconds after it was sent,     *)
(* and the next one is sent REG_INTERVAL after the answer.                 *)
ConstantRaws == {1, 29, 30, 31, 59, 60, 3000, 999999, MAX_LATENCY}

InitEma == InitWith(<<HostA>>, {FALSE}, {TRUE}, ConstantRaws)

ElapseEma ==
    \E h \in Hosts :
        \/ rz[h].sent = 0 /\ Elapse(rawR)
        \/ rz[h].pc = "loop" /\ rz[h].sent = None /\ rz[h].resp = 0
              /\ Elapse(REG_INTERVAL * 1000)

RecvEma(h) ==
    \E p \in UdpPayloads :
        /\ rz[h].sent = rawR
        /\ UdpRecv(h, p)

NextConstant ==
    \/ CycleTop
    \/ ElapseEma
    \/ \E h \in Hosts :
        \/ UdpStart(h, TRUE)
        \/ UdpTick(h)
        \/ RecvEma(h)
        \/ RpAcquire(h)
        \/ RpRelease(h)
        \/ RpSend(h, TRUE)

SpecEma == InitEma /\ [][NextConstant]_vars

(* SpecQuery: one online-status query next to the cycles of one host,      *)
(* whose failures set SHOULD_EXIT; the server may refuse the connection,   *)
(* fail the send, stay silent, answer with another variant or with an      *)
(* OnlineResponse of any length.                                           *)
IdLists ==
    {<<>>, <<"A", "B", "C", "D">>, <<"A", "B", "A">>,
     <<"A", "B", "C", "D", "E", "F", "G", "H", "I">>}

ByteValues == {0, 1, 128, 160}

StateVectors ==
    {<<>>} \cup {<<a>> : a \in ByteValues}
    \cup {<<a, b>> : a \in ByteValues, b \in ByteValues}

Resp(t, states) == [t |-> t, states |-> states]

Silent == {Resp("None", <<>>), Resp("PunchHole", <<>>)}

Responses == Silent \cup {Resp("OnlineResponse", v) : v \in StateVectors}

(* the responses whose vector has a byte for every id *)
ListedResponses(ids) ==
    Silent \cup {Resp("OnlineResponse", v) : v \in {w \in StateVectors : IndexOk(ids, w)}}

QueryWaits == {0, 2000}

InitQuery == InitWith(<<HostA>>, {FALSE}, {TRUE}, {0})

Mediator ==
    \/ Cycle
    \/ SleepElapse
    \/ \E h \in Hosts :
        \/ \E ok \in BOOLEAN : UdpStart(h, ok)
        \/ UdpRecvErr(h)
        \/ TaskExit(h)

QuerySteps ==
    \/ QOuterTop
    \/ QInnerTop
    \/ \E ok \in BOOLEAN : QConnect(ok)
    \/ \E ok \in BOOLEAN : QSend(ok)
    \/ QInnerSleep
    \/ QOuterSleep

NextQuery ==
    \/ Mediator
    \/ \E ids \in IdLists : QueryStart(ids)
    \/ QuerySteps
    \/ \E r \in Responses, dt \in QueryWaits : QRecv(r, dt)

SpecQuery == InitQuery /\ [][NextQuery]_vars

(* SpecCycle: the cycles of one host with time: the tasks of a cycle run   *)
(* for some time, the service may be stopped and started, restart() may be *)
(* called, and the cool-down lasts as long as asked for.                   *)
CycleWaits == {500000, 1000000}

InitCycle == InitWith(<<HostA>>, {FALSE}, {TRUE}, {0})

ElapseCycle == \E dt \in CycleWaits : mpc = "join" /\ Elapse(dt)

SleepDone == mpc = "sleep" /\ cyc.sleep > 0 /\ Elapse(cyc.sleep)

NextCycle ==
    \/ Cycle
    \/ ElapseCycle
    \/ SleepDone
    \/ restart
    \/ \E b \in BOOLEAN : SetStopService(b)
    \/ \E h \in Hosts :
        \/ \E ok \in BOOLEAN : UdpStart(h, ok)
        \/ UdpTick(h) /\ SHOULD_EXIT
        \/ TaskExit(h)

SpecCycle == InitCycle /\ [][NextCycle]_vars

(* SpecTimer: the UDP loop of one host on the grid of its timer: time      *)
(* passes in periods of TIMER_OUT and every period has its tick; an answer *)
(* comes at once, unasked, or later than the longest round trip the        *)
(* callback accepts.                                                       *)
InitTimer == InitWith(<<HostA>>, {FALSE}, BOOLEAN, {0})

ElapseTimer ==
    /\ out.op \in {"tick_register", "tick_idle"}
          \/ \E h \in Hosts : rz[h].pc = "rebind"
    /\ Elapse(TIMER_OUT * 1000)

RecvTimer(h) ==
    \E p \in UdpPayloads :
        /\ rz[h].sent = None \/ rz[h].sent = 0 \/ rz[h].sent > MAX_LATENCY
        /\ UdpRecv(h, p)

NextTimer ==
    \/ Cycle
    \/ SleepElapse
    \/ ElapseTimer
    \/ \E h \in Hosts :
        \/ TaskExit(h)
        \/ \E ok \in BOOLEAN : UdpStart(h, ok)
        \/ UdpTick(h)
        \/ \E d \in {"same", "new", "err"} : UdpRebind(h, d)
        \/ RecvTimer(h)
        \/ RpAcquire(h)
        \/ RpRelease(h)
        \/ \E ok \in BOOLEAN : RpSend(h, ok)

SpecTimer == InitTimer /\ [][NextTimer]_vars

(* SpecTcp: the TCP loop of one host with time, in periods of three        *)
(* seconds, each with a tick; the server answers with any                  *)
(* RegisterPkResponse, its keep-alive override absent, negative, below or  *)
(* above the default, or large enough for the product with 1000 to leave   *)
(* the i32 range, and                                                      *)
(* sends heartbeats, each right after a tick; the echo of a heartbeat may  *)
(* take a period; the build has overflow checks or not.                    *)
Overrides == {0 - 1, 0, 30, 70, 2147484, 4294968}

TcpPayloads ==
    {Msg("RegisterPkResponse", FALSE, res, ka, <<>>, 0) :
        res \in {"OK", "UUID_MISMATCH", "OTHER"}, ka \in Overrides}
    \cup {Plain("Empty")}

InitTcp ==
    InitEnv(<<HostA>>,
            [tcp : {TRUE}, public : {TRUE}, stop : {FALSE}, checks : BOOLEAN,
             relay : {NoRelay}, nat : {"ASYMMETRIC"}, ipv4 : {TRUE},
             x11 : {FALSE}, uinput : {FALSE}],
            {0})

ElapseTcp ==
    LET dt == 3 * TIMER_OUT * 1000
    IN  /\ out.op \in {"tick_tcp", "heartbeat"}
        /\ \A h \in Hosts :
              /\ rz[h].sent = None \/ rz[h].sent + dt <= MaxAge
              /\ rz[h].recv = None \/ rz[h].recv + dt <= MaxAge
        /\ Elapse(dt)

RecvTcp(h) ==
    \E p \in TcpPayloads :
        /\ is_empty(p) => out.op = "tick_tcp"
        /\ TcpRecv(h, p)

NextTcp ==
    \/ Cycle
    \/ SleepElapse
    \/ ElapseTcp
    \/ \E h \in Hosts :
        \/ TaskExit(h)
        \/ \E ok \in BOOLEAN : TcpStart(h, ok)
        \/ TcpTick(h)
        \/ \E ok \in BOOLEAN : TcpPkSend(h, ok)
        \/ RecvTcp(h)
        \/ \E ok \in BOOLEAN : TcpEcho(h, ok)
        \/ TcpReset(h)
        \/ OkAcquire(h)
        \/ OkClear(h)
        \/ MmAcquire(h)
        \/ MmCritical(h)
        \/ \E ok \in BOOLEAN : MmSend(h, ok)

SpecTcp == InitTcp /\ [][NextTcp]_vars

(* SpecTrav: the UDP loop of one host receives traversal messages; one     *)
(* handler at a time is followed step by step, with every outcome of its   *)
(* connects and sends, under every setting of the relay-server option, of  *)
(* the local NAT type and of the address family.                           *)
TravPayloads ==
    {Traversal("PunchHole", n, r, "", FALSE) :
        n \in {"ASYMMETRIC", "SYMMETRIC"}, r \in {NoRelay, ServerRelay}}
    \cup {Traversal("FetchLocalAddr", "UNKNOWN_NAT", r, "", FALSE) :
        r \in {NoRelay, ServerRelay}}
    \cup {Traversal("RequestRelay", "UNKNOWN_NAT", r, "peer-uuid", b) :
        r \in {NoRelay, ServerRelay}, b \in BOOLEAN}

InitTrav ==
    InitEnv(<<HostA>>,
            [tcp : {FALSE}, public : {TRUE}, stop : {FALSE}, checks : {FALSE},
             relay : {NoRelay, LocalRelay}, nat : {"ASYMMETRIC", "SYMMETRIC"},
             ipv4 : BOOLEAN, x11 : {FALSE}, uinput : {FALSE}],
            {0})

NextTrav ==
    \/ Cycle
    \/ SleepElapse
    \/ \E h \in Hosts :
        \/ TaskExit(h)
        \/ \E ok \in BOOLEAN : UdpStart(h, ok)
        \/ \E p \in TravPayloads : UdpRecv(h, p)
        \/ UdpRecvErr(h)
    \/ TravBegin
    \/ \E ok \in BOOLEAN : TravConnect(ok)
    \/ \E ok \in BOOLEAN : TravPreconnect(ok)
    \/ \E ok \in BOOLEAN : TravSend(ok)
    \/ TravDone
    \/ \E ok \in BOOLEAN : HandlerDone(ok)

SpecTrav == InitTrav /\ [][NextTrav]_vars

(* SpecWayland: check_init, get_displays, get_primary,                     *)
(* get_capturer_for_display and clear called from several threads, on an   *)
(* X11 or a Wayland session, with or without uinput, with every result of  *)
(* the listing and of the creation of the capturers.                       *)
InitWayland ==
    InitEnv(<<HostA>>,
            [tcp : {FALSE}, public : {TRUE}, stop : {FALSE}, checks : {FALSE},
             relay : {NoRelay}, nat : {"ASYMMETRIC"}, ipv4 : {TRUE},
             x11 : BOOLEAN, uinput : BOOLEAN],
            {0})

NextWayland ==
    \/ \E t \in Callers, l \in Listings, res \in BOOLEAN :
          CheckInit(t, l[1], l[2], res)
    \/ \E t \in Callers, l \in Listings, res \in BOOLEAN :
          GetDisplays(t, l[1], l[2], res)
    \/ \E t \in Callers : MouseDone(t)
    \/ \E t \in Callers : ReadDisplays(t)
    \/ GetPrimary
    \/ \E i \in 0..(MaxDisplays - 1) : GetCapturer(i)
    \/ Clear

SpecWayland == InitWayland /\ [][NextWayland]_vars

(* FairQuery: the server behaves in one of the listed ways (a valid        *)
(* OnlineResponse has a byte for every id); every await of the query       *)
(* completes.                                                              *)
RecvListed == \E r \in ListedResponses(q.ids), dt \in QueryWaits : QRecv(r, dt)

NextListed ==
    \/ Mediator
    \/ \E ids \in IdLists : QueryStart(ids)
    \/ QuerySteps
    \/ RecvListed

FairQuery ==
    /\ InitQuery /\ [][NextListed]_vars
    /\ WF_vars(QuerySteps)
    /\ WF_vars(RecvListed)

(* FairSpec: Spec with the scheduling the executor provides.  A task    *)
(* that is ready to run is run (WF); select! picks its branch at random,   *)
(* so a timer that is ready again and again is served (SF); the tokio      *)
(* Mutex is FIFO, so a waiter gets the lock (SF).                          *)
Internal(h) ==
    \/ TaskExit(h)
    \/ \E ok \in BOOLEAN : UdpStart(h, ok)
    \/ \E ok \in BOOLEAN : TcpStart(h, ok)
    \/ \E ok \in BOOLEAN : PkSend(h, ok)
    \/ \E ok \in BOOLEAN : MmSend(h, ok)
    \/ \E ok \in BOOLEAN : RpSend(h, ok)
    \/ \E ok \in BOOLEAN : TcpPkSend(h, ok)
    \/ OkClear(h)
    \/ MmCritical(h)
    \/ RpRelease(h)

Acquire(h) == OkAcquire(h) \/ MmAcquire(h) \/ RpAcquire(h)

Tick(h) == UdpTick(h) \/ TcpTick(h)

Fairness ==
    /\ WF_vars(CycleJoin)
    /\ \A h \in Hosts :
        /\ WF_vars(Internal(h))
        /\ SF_vars(Acquire(h))
        /\ SF_vars(Tick(h))

FairSpec == Spec /\ Fairness

----------------------------------------------------------------------------
(* Claims *)

TickOps == {"tick_exit", "tick_register", "tick_idle", "tick_tcp"}

Returned(h) == rz[h].pc \in {"ret_ok", "ret_err", "done"}

(* C1: within a cycle, once a host task has finished SHOULD_EXIT is true;  *)
(* a loop whose timer ticks while SHOULD_EXIT is true returns on that      *)
(* tick; and once one task has finished the join of the cycle completes.   *)
C1_Exit ==
    /\ [](\A h \in Hosts : (mpc = "join" /\ rz[h].pc = "done") => SHOULD_EXIT)
    /\ [][\A h \in Hosts :
            (SHOULD_EXIT /\ out'.h = h /\ out'.op \in TickOps)
                => rz'[h].pc = "ret_ok"]_vars
    /\ ((mpc = "join" /\ \E h \in Hosts : rz[h].pc = "done") ~> (mpc # "join"))

(* One task has finished while the other loop is still running *)
C1_Witness ==
    /\ mpc = "join"
    /\ \E a, b \in Hosts :
        /\ a # b
        /\ rz[a].pc = "done"
        /\ rz[b].pc = "ret_ok"
        /\ out.h = b /\ out.op = "tick_exit"

PastCheck(h) == rz[h].pc \in {"mm_held", "mm_send"}

Proceeded(h) == (rz[h].pc = "mm_held" /\ rz[h].flag) \/ rz[h].pc = "mm_send"

(* C2: the guard's check and write are atomic: a host that passed the    *)
(* check holds the lock and the guard is as it read it; between two        *)
(* clearings of the guard at most one host recovers, and of two hosts      *)
(* past the check at least one does; the recovering step marks the key     *)
(* unconfirmed and records the host, and a RegisterPk follows; the         *)
(* skipping step changes nothing and sends nothing.                        *)
C2_SingleFlight ==
    /\ [](\A h \in Hosts : rz[h].pc = "mm_held" =>
            /\ lock = h
            /\ rz[h].flag = GuardAllows(SOLVING_PK_MISMATCH, h))
    /\ [](Cardinality(solvers) <= 1)
    /\ [](\A a, b \in Hosts : (a # b /\ PastCheck(a) /\ PastCheck(b)) =>
            (Proceeded(a) \/ Proceeded(b)))
    /\ [][\A h \in Hosts :
            /\ (out'.h = h /\ out'.op = "mm_skip") =>
                  /\ cfg' = cfg
                  /\ SOLVING_PK_MISMATCH' = SOLVING_PK_MISMATCH
                  /\ out'.sent = <<>>
            /\ (out'.h = h /\ out'.op = "mm_recover") =>
                  /\ ~cfg'.key_confirmed
                  /\ SOLVING_PK_MISMATCH' = h
                  /\ rz'[h].pc = "mm_send"
            /\ (out'.h = h /\ out'.op = "mm_send") =>
                  out'.sent = <<Snd("RegisterPk", rz[h].laddr)>>]_vars

(* Both hosts are in handle_uuid_mismatch: one recovered, the other is     *)
(* about to skip.                                                          *)
C2_Witness ==
    \E a, b \in Hosts :
        /\ a # b
        /\ rz[a].pc = "mm_send"
        /\ solvers = {a}
        /\ rz[b].pc = "mm_held"
        /\ ~rz[b].flag

(* C3: no host starts a recovery while another host's recovery is still    *)
(* unanswered (that host has not handled RegisterPkResponse OK and no new  *)
(* cycle has begun).                                                       *)
C3_OneSolver ==
    [][\A h \in Hosts :
        (out'.h = h /\ out'.op = "mm_recover") => pending \in {NoHost, h}]_vars

(* C4: reg_timeout is a multiple of 3000 between 3000 and 30000; a new     *)
(* loop starts at 3000; it changes only by growing 3000 on a tick that     *)
(* finds the registration timed out while it is below 30000, or by going   *)
(* back to 3000; every registration response puts it back to 3000.         *)
C4_RegTimeout ==
    /\ [](\A h \in Hosts :
            /\ rz[h].reg_timeout >= 3000
            /\ rz[h].reg_timeout <= 30000
            /\ rz[h].reg_timeout % 3000 = 0)
    /\ [][\A h \in Hosts :
            /\ (out'.h = h /\ out'.op = "start_udp") => rz'[h].reg_timeout = 3000
            /\ (out'.h = h /\ out'.op = "RegisterPeerResponse") =>
                    rz'[h].reg_timeout = 3000
            /\ rz'[h].reg_timeout > rz[h].reg_timeout =>
                    /\ out'.h = h /\ out'.op = "tick_register"
                    /\ TimedOut(rz[h])
                    /\ rz[h].reg_timeout < 30000
                    /\ rz'[h].reg_timeout = rz[h].reg_timeout + 3000
            /\ rz'[h].reg_timeout < rz[h].reg_timeout =>
                    rz'[h].reg_timeout = 3000]_vars

(* The tenth consecutive timeout: reg_timeout is at 30000 and stays there *)
C4_Witness ==
    /\ out.op = "tick_register"
    /\ rz[out.h].reg_timeout = 30000
    /\ rz[out.h].fails = 10

(* C5: -1 is published only by a tick that brings the failure counter to   *)
(* 4 or more, 0 only by a tick that brings it to 2 or 3; no other step     *)
(* publishes 0 or -1.                                                      *)
C5_Sentinels ==
    [][\A h \in Hosts : \A i \in 1..Len(out'.pub) :
        out'.h = h =>
            /\ out'.pub[i] = 0 - 1 =>
                    (out'.op = "tick_register" /\ rz'[h].fails >= 4)
            /\ out'.pub[i] = 0 =>
                    (out'.op = "tick_register" /\ rz'[h].fails \in {2, 3})]_vars

(* C6: a registration response whose raw round trip is not in              *)
(* (0, 1000000] leaves the EMA as it was and publishes nothing.            *)
C6_Rejected ==
    [][\A h \in Hosts :
        (/\ out'.h = h /\ out'.op = "RegisterPeerResponse"
         /\ ~(RawLatency(rz[h]) > 0 /\ RawLatency(rz[h]) <= 1000000))
            => (rz'[h].ema = rz[h].ema /\ out'.pub = <<>>)]_vars

(* C7: for a measurement the callback accepts, with L the new smoothed     *)
(* latency and P the value last published for the host: L is published     *)
(* iff P is not a positive latency (nothing was published, or the last     *)
(* publication was 0 or -1) or |L - P| > max(L/5, 3000); when L is not     *)
(* published the published values stay as they were.                       *)
C7_Deadband ==
    [][\A h \in Hosts :
        (/\ out'.h = h /\ out'.op = "RegisterPeerResponse"
         /\ RawLatency(rz[h]) >= 0 /\ RawLatency(rz[h]) <= 1000000)
            => LET L == rz'[h].ema
                   P == cfg.latency[h]
                   n == IF L \div 5 < 3000 THEN 3000 ELSE L \div 5
               IN  /\ out'.pub \in {<<>>, <<L>>}
                   /\ (out'.pub = <<L>>) <=> (P <= 0 \/ Abs(L - P) > n)
                   /\ out'.pub = <<L>> => cfg'.latency[h] = L
                   /\ out'.pub = <<>> => cfg'.latency = cfg.latency]_vars

(* A second measurement moved the EMA inside the deadband of the           *)
(* published latency: nothing was published.                               *)
C7_Witness ==
    /\ out.op = "RegisterPeerResponse"
    /\ out.pub = <<>>
    /\ samples[out.h] = 2
    /\ cfg.latency[out.h] > 0
    /\ rz[out.h].ema > cfg.latency[out.h]

(* C7 as stated: L is published iff nothing was published before or        *)
(* |L - P| > max(L/5, 3000), P being the last published value, a 0 or -1   *)
(* included.                                                               *)
C7_AsStated ==
    [][\A h \in Hosts :
        (/\ out'.h = h /\ out'.op = "RegisterPeerResponse"
         /\ RawLatency(rz[h]) > 0 /\ RawLatency(rz[h]) <= 1000000)
            => LET L == rz'[h].ema
                   P == cfg.latency[h]
                   n == IF L \div 5 < 3000 THEN 3000 ELSE L \div 5
               IN  /\ (out'.pub = <<L>>) <=> (P = NoLat \/ Abs(L - P) > n)
                   /\ out'.pub # <<L>> => cfg'.latency = cfg.latency]_vars

(* C8: under a constant raw R in (0, 1000000] and from an unseeded EMA,    *)
(* the EMA stays between R - 29 and R (and never below 0), stays at R      *)
(* when R is a multiple of 30, and the published latency is R.             *)
C8_Constant ==
    \A h \in Hosts :
        samples[h] > 0 =>
            /\ rz[h].ema <= rawR
            /\ rz[h].ema >= rawR - 29
            /\ rz[h].ema >= 0
            /\ rawR % 30 = 0 => rz[h].ema = rawR
            /\ cfg.latency[h] = rawR

(* R = 59: the EMA has run down to 30, the published latency is still 59 *)
C8_Witness ==
    /\ rawR = 59
    /\ samples[HostA] > 0
    /\ rz[HostA].ema = 30
    /\ cfg.latency[HostA] = 59

(* C8 as stated: the EMA stays at R and the published latency is R *)
C8_AsStated ==
    \A h \in Hosts :
        samples[h] > 0 => (rz[h].ema = rawR /\ cfg.latency[h] = rawR)

(* C9: ConfigureUpdate stores the pushed list and serial; both flags     *)
(* become true if the effective server list changed, and neither changes   *)
(* if it did not.                                                          *)
C9_ConfigureUpdate ==
    [][\A h \in Hosts :
        (out'.h = h /\ out'.op = "ConfigureUpdate") =>
            /\ cfg'.servers = out'.arg[1]
            /\ cfg'.serial = out'.arg[2]
            /\ IF get_rendezvous_servers(cfg) = get_rendezvous_servers(cfg')
               THEN UNCHANGED <<SHOULD_EXIT, MANUAL_RESTARTED>>
               ELSE SHOULD_EXIT' /\ MANUAL_RESTARTED']_vars

(* A ConfigureUpdate stored a list and a serial without a restart *)
C9_Witness ==
    /\ out.op = "ConfigureUpdate"
    /\ cfg.servers = <<HostA>>
    /\ cfg.serial = 1
    /\ ~SHOULD_EXIT
    /\ ~MANUAL_RESTARTED

(* C10: a zero-length payload in the TCP loop is not dispatched: the step  *)
(* that receives it refreshes last_recv_msg and begins the echo, changing  *)
(* nothing else; the host's next step is the end of the echo, which sends  *)
(* one empty payload and changes nothing but the loop's position (back in  *)
(* the loop, or returned if the echo failed).                              *)
C10_Heartbeat ==
    [][\A h \in Hosts :
        /\ (env.tcp /\ out'.h = h /\ out'.op \in {"heartbeat", "Empty"}) =>
              /\ out'.op = "heartbeat"
              /\ out'.sent = <<>>
              /\ out'.pub = <<>>
              /\ rz'[h] = [rz[h] EXCEPT !.recv = 0, !.pc = "hb_send"]
              /\ UNCHANGED <<cfg, SHOULD_EXIT, MANUAL_RESTARTED,
                             SOLVING_PK_MISMATCH, lock>>
        /\ (out'.h = h /\ rz[h].pc = "hb_send") =>
              /\ out'.op = "echo"
              /\ out'.sent = <<Snd("Empty", rz[h].laddr)>>
              /\ out'.pub = <<>>
              /\ rz'[h].pc = (IF out'.arg = <<TRUE>> THEN "loop" ELSE "ret_err")
              /\ rz'[h] = [rz[h] EXCEPT !.pc = rz'[h].pc]
              /\ UNCHANGED <<cfg, SHOULD_EXIT, MANUAL_RESTARTED,
                             SOLVING_PK_MISMATCH, lock>>]_vars

(* The loop goes on after the echo of a heartbeat, with the key confirmed  *)
(* and the keep-alive of the server.                                       *)
C10_Witness ==
    /\ out.op = "echo"
    /\ out.arg = <<TRUE>>
    /\ rz[out.h].pc = "loop"
    /\ rz[out.h].recv = 0
    /\ rz[out.h].keep_alive # DEFAULT_KEEP_ALIVE
    /\ cfg.key_confirmed

(* C11: for an OnlineResponse with a byte for every id, id number i is     *)
(* online iff bit (7 - i mod 8) of byte (i div 8) is set; the callback     *)
(* gets the online ids and the offline ids, each in the order of the       *)
(* list, every position in exactly one of them; [A,B,C,D] with 0b1010_0000 *)
(* gives [A,C] and [B,D].                                                  *)
C11_Decode ==
    [][(/\ out'.op = "query_recv"
        /\ out'.arg[1].t = "OnlineResponse"
        /\ Len(q.ids) <= 8 * Len(out'.arg[1].states))
        => LET ids == q.ids
               st == out'.arg[1].states
               Set(i) == (st[i \div 8 + 1] \div (2 ^ (7 - (i % 8)))) % 2 = 1
               On == {i \in 0..(Len(ids) - 1) : Set(i)}
               Off == {i \in 0..(Len(ids) - 1) : ~Set(i)}
               Nth(S, k) == CHOOSE i \in S : Cardinality({j \in S : j <= i}) = k
           IN  /\ q'.pc = "done"
               /\ q'.calls = 1
               /\ q'.onlines = [k \in 1..Cardinality(On) |-> ids[Nth(On, k) + 1]]
               /\ q'.offlines = [k \in 1..Cardinality(Off) |-> ids[Nth(Off, k) + 1]]
               /\ Len(q'.onlines) + Len(q'.offlines) = Len(ids)
               /\ (ids = <<"A", "B", "C", "D">> /\ st[1] = 160) =>
                    (q'.onlines = <<"A", "C">> /\ q'.offlines = <<"B", "D">>)]_vars

(* Nine ids and two bytes, 0b1010_0000 and 0b1000_0000 *)
C11_Witness ==
    /\ q.pc = "done"
    /\ Len(q.ids) = 9
    /\ q.onlines = <<"A", "C", "I">>
    /\ Len(q.offlines) = 6

(* C12: when the stream cannot be opened or the send fails, the callback   *)
(* is called once with no online id and the whole list offline, the query  *)
(* ends without an error, and no connection is attempted afterwards.       *)
C12_FailOpen ==
    [][/\ (out'.op \in {"query_connect", "query_send"} /\ out'.arg = <<FALSE>>) =>
            /\ q.calls = 0
            /\ q'.calls = 1
            /\ q'.onlines = <<>>
            /\ q'.offlines = q.ids
            /\ ~q'.err
            /\ q'.pc = "done"
       /\ out'.op = "query_connect" => q.calls = 0
       /\ q.pc = "done" => q' = q]_vars

(* The send failed on the second attempt of a query for four ids *)
C12_Witness ==
    /\ out.op = "query_send"
    /\ q.pc = "done"
    /\ q.tries = 2
    /\ q.calls = 1
    /\ Len(q.ids) = 4
    /\ q.offlines = q.ids

(* C13: when SHOULD_EXIT is seen at the start of an attempt, in either     *)
(* loop, the query ends there, without an error, and no id is reported     *)
(* online or offline.                                                      *)
C13_ExitEarly ==
    [][/\ (q.pc \in {"outer", "inner"} /\ SHOULD_EXIT /\ q' # q) =>
            out'.op = "query_exit"
       /\ out'.op = "query_exit" =>
            /\ SHOULD_EXIT
            /\ q'.pc = "done"
            /\ ~q'.err
            /\ q'.onlines = <<>>
            /\ q'.offlines = <<>>
            /\ q'.calls <= 1]_vars

(* SHOULD_EXIT was seen at the start of a retry of a query for four ids *)
C13_Witness ==
    /\ out.op = "query_exit"
    /\ q.tries >= 1
    /\ q.calls = 0
    /\ Len(q.ids) = 4
    /\ q.pc = "done"

(* C14: after a missing response or a response of another variant the      *)
(* query reports nothing and either retries after a delay that is shorter  *)
(* than the overall timeout or, the overall timeout having elapsed, gives  *)
(* up with an error; it never gives up earlier.                            *)
C14_Retry ==
    [][/\ (out'.op = "query_recv" /\ out'.arg[1].t # "OnlineResponse") =>
            /\ q'.calls = q.calls
            /\ q'.pc \in {"isleep", "osleep"} \/ (q'.pc = "done" /\ q'.err)
       /\ (q'.err /\ ~q.err) => q'.begin > 3000
       /\ out'.op = "query_sleep" => out'.arg[1] < 3000]_vars

(* C15: the callback is called at most once, and a query that was started  *)
(* returns.                                                                *)
C15_Returns ==
    /\ [](q.calls <= 1)
    /\ [][q'.calls >= q.calls \/ out'.op = "query_start"]_vars
    /\ ((q.pc # "idle") ~> (q.pc = "done"))

(* The query gave up after its last retry, without a call of the callback *)
C15_Witness ==
    /\ q.pc = "done"
    /\ q.err
    /\ q.tries >= 3
    /\ q.calls = 0
    /\ Len(q.ids) = 9

Spawns == {"PunchHole", "RequestRelay", "FetchLocalAddr"}

(* C16: spawning a traversal handler leaves the loop, its state, the       *)
(* configuration, the guard and the flags as they are and sends nothing;   *)
(* the end of a handler, failed or not, changes none of them either; and   *)
(* a loop that waits in its select can take its timer tick while handlers  *)
(* are running.                                                            *)
C16_Detached ==
    /\ [][\A h \in Hosts :
            (out'.h = h /\ out'.op \in Spawns) =>
                /\ spawned' = spawned + 1
                /\ rz[h].pc = "loop"
                /\ rz'[h] = [rz[h] EXCEPT !.recv = rz'[h].recv]
                /\ out'.sent = <<>>
                /\ UNCHANGED <<cfg, SHOULD_EXIT, MANUAL_RESTARTED,
                               SOLVING_PK_MISMATCH, lock>>]_vars
    /\ [][out'.op = "handler_done" =>
            UNCHANGED <<rz, cfg, SHOULD_EXIT, MANUAL_RESTARTED,
                        SOLVING_PK_MISMATCH, lock, mpc>>]_vars
    /\ [](\A h \in Hosts :
            (spawned > 0 /\ rz[h].pc = "loop") =>
                ENABLED (UdpTick(h) \/ TcpTick(h)))

(* A handler has failed; the loop that spawned it waits for the answer to  *)
(* its registration and SHOULD_EXIT is false.                              *)
C16_Witness ==
    /\ out.op = "handler_done"
    /\ out.arg = <<FALSE>>
    /\ ~SHOULD_EXIT
    /\ \E h \in Hosts : rz[h].pc = "loop" /\ rz[h].sent # None

(* C17: when the send of a public-key registration fails inside the        *)
(* dispatch, the loop returns with the error; a loop that has returned     *)
(* sends nothing more, its next step is the end of its task, which stores  *)
(* SHOULD_EXIT; and that step comes.                                       *)
C17_DispatchFailure ==
    /\ [][\A h \in Hosts :
            /\ (/\ out'.h = h /\ rz[h].pc \in {"pk_send", "mm_send"}
                /\ out'.arg = <<FALSE>>) => rz'[h].pc = "ret_err"
            /\ (out'.h = h /\ rz[h].pc = "ret_err") =>
                    /\ out'.op = "task_exit"
                    /\ out'.sent = <<>>
                    /\ rz'[h].pc = "done"
                    /\ SHOULD_EXIT']_vars
    /\ \A h \in Hosts :
            (rz[h].pc = "ret_err") ~> (rz[h].pc = "done" /\ SHOULD_EXIT)

(* The RegisterPk of a mismatch recovery could not be sent *)
C17_Witness ==
    /\ out.op = "mm_send"
    /\ out.arg = <<FALSE>>
    /\ rz[out.h].pc = "ret_err"
    /\ ~SHOULD_EXIT

(* C18: bytes that do not parse are dropped by the UDP loop, which goes on *)
(* with its state, the configuration, the guard and the flags unchanged;   *)
(* the TCP loop returns with an error.                                     *)
C18_ParseFailure ==
    [][\A h \in Hosts :
        (out'.h = h /\ out'.op \in {"not_protobuf", "parse_err", "Garbage"}) =>
            IF env.tcp
            THEN /\ out'.op = "parse_err"
                 /\ rz'[h].pc = "ret_err"
                 /\ out'.sent = <<>>
                 /\ out'.pub = <<>>
            ELSE /\ out'.op = "not_protobuf"
                 /\ out'.sent = <<>>
                 /\ out'.pub = <<>>
                 /\ UNCHANGED <<rz, cfg, SHOULD_EXIT, MANUAL_RESTARTED,
                                SOLVING_PK_MISMATCH, lock, spawned>>]_vars

(* The UDP loop dropped a datagram while its registration was in flight *)
C18_Witness ==
    /\ out.op = "not_protobuf"
    /\ ~env.tcp
    /\ rz[out.h].pc = "loop"
    /\ rz[out.h].sent # None

(* C19: every iteration of the cycle, with the service running or          *)
(* stopped, leaves its top with SHOULD_EXIT and MANUAL_RESTARTED false.    *)
C19_FlagsReset ==
    [][out'.op = "cycle_top" => (~SHOULD_EXIT' /\ ~MANUAL_RESTARTED')]_vars

(* C20: after a cycle that ended with MANUAL_RESTARTED false the next      *)
(* cycle starts CONNECT_TIMEOUT or more after the start of the ended one.  *)
C20_CoolDown ==
    [][/\ out'.op = "cycle_wake" => as_millis(cyc.start) >= CONNECT_TIMEOUT
       /\ (out'.op = "cycle_join" /\ ~MANUAL_RESTARTED /\ mpc' = "top") =>
            as_millis(cyc.start) >= CONNECT_TIMEOUT]_vars

(* C21: the top of a cycle empties the guard in the step that spawns the   *)
(* host tasks, and no task of an earlier cycle exists then; the cycle      *)
(* leaves its join only when every task it spawned has ended, resets the   *)
(* online state in that step and nowhere else, once per cycle; outside a   *)
(* join no registration loop exists.                                       *)
C21_Cycle ==
    /\ [][out'.op = "cycle_top" =>
            /\ mpc = "top" /\ mpc' = "join"
            /\ SOLVING_PK_MISMATCH' = NoHost
            /\ \A h \in Hosts : rz[h].pc = "idle"
            /\ \A h \in Hosts : rz'[h].pc \in {"idle", "start"}]_vars
    /\ [][out'.op = "cycle_join" =>
            /\ \A h \in Hosts : rz[h].pc \in {"idle", "done"}
            /\ cfg'.latency = [h \in Hosts |-> NoLat]]_vars
    /\ [][(mpc = "join" /\ mpc' # "join") <=> out'.op = "cycle_join"]_vars
    /\ [][(cfg'.latency # cfg.latency /\ cfg'.latency = [h \in Hosts |-> NoLat])
            => out'.op = "cycle_join"]_vars
    /\ [](mpc # "join" => \A h \in Hosts : rz[h].pc = "idle")

(* A cycle of two hosts has ended after a key was confirmed and a latency  *)
(* published in it: the online state is reset and the cool-down begins.    *)
C21_Witness ==
    /\ out.op = "cycle_join"
    /\ mpc = "sleep"
    /\ cfg.key_confirmed
    /\ SHOULD_EXIT
    /\ cfg.latency = [h \in Hosts |-> NoLat]

(* C22: a tick goes on to register only if the registration in flight is   *)
(* reg_timeout old or more, or none is in flight and no response came in   *)
(* the last REG_INTERVAL (or ever); a tick that finds a registration in    *)
(* flight and younger than reg_timeout sends nothing and changes nothing   *)
(* but the loop's position; and whenever a registration is sent, the last  *)
(* response is REG_INTERVAL old or more.                                   *)
C22_Sequential ==
    [][\A h \in Hosts :
        /\ (out'.h = h /\ out'.op = "tick_register") =>
              \/ rz[h].sent # None /\ as_millis(rz[h].sent) >= rz[h].reg_timeout
              \/ /\ rz[h].sent = None
                 /\ rz[h].resp = None \/ as_millis(rz[h].resp) >= REG_INTERVAL
        /\ (/\ out'.h = h /\ out'.op \in {"tick_register", "tick_idle"}
            /\ rz[h].sent # None
            /\ as_millis(rz[h].sent) < rz[h].reg_timeout) =>
              /\ out'.op = "tick_idle"
              /\ out'.sent = <<>>
              /\ rz'[h] = rz[h]
        /\ (out'.h = h /\ out'.op = "register_peer") =>
              /\ rz[h].pc = "rp_send"
              /\ rz[h].resp = None \/ as_millis(rz[h].resp) >= REG_INTERVAL]_vars

(* A tick found the registration 5 s in flight under a reg_timeout of 6 s *)
C22_Witness ==
    /\ out.op = "tick_idle"
    /\ rz[out.h].sent = 5000000
    /\ rz[out.h].reg_timeout = 6000
    /\ rz[out.h].fails = 1

(* C23: a step of the UDP loop that records a registration send time       *)
(* sends a RegisterPeer or a RegisterPk.                                   *)
C23_RecordedIsSent ==
    [][\A h \in Hosts :
        (/\ ~env.tcp /\ out'.h = h
         /\ rz[h].pc \in {"rp_held", "rp_send"}
         /\ rz'[h].pc = "loop"
         /\ rz'[h].sent = rz[h].now) =>
            \E i \in 1..Len(out'.sent) :
                out'.sent[i].m \in {"RegisterPeer", "RegisterPk"}]_vars

InLoop(h) ==
    rz[h].pc \notin {"idle", "start", "ret_ok", "ret_err", "done", "panicked"}

(* C24: rebind_udp_for is called only by a tick that finds the             *)
(* registration timed out, brings the failure counter to 4 or more and     *)
(* finds the last DNS refresh more than 60000 ms old; when it returns an   *)
(* error the loop returns with it, otherwise the refresh time is set to    *)
(* now and the registration follows; the session's address changes in no   *)
(* other step of the loop, and the refresh time is renewed in no other     *)
(* step.                                                                   *)
C24_Rebind ==
    [][\A h \in Hosts :
        /\ (rz'[h].pc = "rebind" /\ rz[h].pc # "rebind") =>
              /\ out'.h = h /\ out'.op = "tick_register"
              /\ rz[h].sent # None
              /\ as_millis(rz[h].sent) >= rz[h].reg_timeout
              /\ rz'[h].fails >= 4
              /\ as_millis(rz[h].dns) > 60000
        /\ (out'.h = h /\ rz[h].pc = "rebind") =>
              /\ out'.op = "rebind"
              /\ out'.sent = <<>>
              /\ IF out'.arg = <<"err">>
                 THEN rz'[h].pc = "ret_err"
                 ELSE rz'[h].pc = "rp_lock" /\ rz'[h].dns = 0
        /\ (InLoop(h) /\ rz'[h].addr # rz[h].addr) =>
              (out'.h = h /\ out'.op = "rebind" /\ out'.arg = <<"new">>)
        /\ (InLoop(h) /\ rz'[h].dns < rz[h].dns) =>
              (out'.h = h /\ out'.op = "rebind" /\ out'.arg # <<"err">>)]_vars

(* The second re-resolution of one loop gave a new address again *)
C24_Witness ==
    /\ out.op = "rebind"
    /\ out.arg = <<"new">>
    /\ rz[out.h].addr = 0
    /\ rz[out.h].dns = 0
    /\ rz[out.h].fails >= 4

(* C25: every message the UDP loop sends is addressed to the address in    *)
(* the session's addr field, the newly resolved one after a                *)
(* re-resolution.                                                          *)
C25_NewAddress ==
    [][\A h \in Hosts :
        (~env.tcp /\ out'.h = h) =>
            \A i \in 1..Len(out'.sent) : out'.sent[i].to = rz[h].addr]_vars

(* C26: when the value last published for a host is a 0 or -1 that a tick  *)
(* published (no measurement was accepted in the loop so far), the first   *)
(* registration response whose measurement the callback accepts publishes  *)
(* a latency, and the published value is then a positive latency.  (A      *)
(* response handled in the instant of the send is left out: no time has    *)
(* passed in the model, some has in the program.)                          *)
C26_SentinelReplaced ==
    [][\A h \in Hosts :
        (/\ ~env.tcp /\ out'.h = h /\ out'.op = "RegisterPeerResponse"
         /\ cfg.latency[h] \in {0, 0 - 1}
         /\ samples[h] = 0
         /\ rz[h].sent # 0
         /\ Accepted(RawLatency(rz[h]))) =>
            /\ out'.pub # <<>>
            /\ cfg'.latency[h] > 0]_vars

(* C27: the step that handles RegisterPkResponse OK for host h runs the    *)
(* latency callback, sets key_confirmed and the flag of h's host prefix    *)
(* ("rs-ny" for rs-ny.example.com, the whole host for 10.0.0.7), and goes  *)
(* on to take the guard's mutex; from there the only steps are taking the  *)
(* mutex and emptying the guard, after which the loop goes on.  A result   *)
(* other than OK and UUID_MISMATCH runs the callback, leaves the flags and *)
(* the guard as they are and the loop goes on.                             *)
C27_PkResponse ==
    [][\A h \in Hosts :
        LET ran == IF env.tcp
                   THEN out'.pub = <<RawLatency(rz[h])>>
                   ELSE /\ rz'[h].resp = 0 /\ rz'[h].sent = None
                        /\ rz'[h].fails = 0
                        /\ rz'[h].reg_timeout = MIN_REG_TIMEOUT
            prefix == IF h = HostA THEN "rs-ny" ELSE h
        IN
        /\ (out'.h = h /\ out'.op = "RegisterPkResponse_OK") =>
              /\ ran
              /\ cfg'.key_confirmed
              /\ cfg'.hkc[prefix]
              /\ \A k \in Keys \ {prefix} : cfg'.hkc[k] = cfg.hkc[k]
              /\ rz'[h].pc = "ok_lock"
        /\ (rz[h].pc = "ok_lock" /\ rz'[h] # rz[h]) =>
              (out'.op = "ok_acquire" /\ rz'[h].pc = "ok_held" /\ lock' = h)
        /\ (rz[h].pc = "ok_held" /\ rz'[h] # rz[h]) =>
              /\ out'.op = "ok_clear"
              /\ SOLVING_PK_MISMATCH' = NoHost
              /\ lock' = Free
              /\ rz'[h].pc = "loop"
        /\ (out'.h = h /\ out'.op = "RegisterPkResponse_OTHER") =>
              /\ ran
              /\ cfg'.key_confirmed = cfg.key_confirmed
              /\ cfg'.hkc = cfg.hkc
              /\ UNCHANGED <<SOLVING_PK_MISMATCH, lock, SHOULD_EXIT>>
              /\ rz'[h].pc = "loop"]_vars

(* RegisterPkResponse OK was handled by the host that recorded itself in   *)
(* the guard: the flags are set, the guard is about to be emptied.         *)
C27_Witness ==
    /\ out.op = "RegisterPkResponse_OK"
    /\ out.h = HostA
    /\ SOLVING_PK_MISMATCH = HostA
    /\ cfg.key_confirmed
    /\ cfg.hkc["rs-ny"]
    /\ rz[HostA].pc = "ok_lock"

(* C28: a tick of the TCP loop that goes on (no exit, no dead connection)  *)
(* sends a RegisterPk iff the key is unconfirmed, globally or for the      *)
(* host's prefix (the flag that RegisterPkResponse OK sets), and no        *)
(* RegisterPk was sent by a tick in the last REG_INTERVAL; so with both    *)
(* flags set by an OK, ticks send none.                                    *)
C28_PkOnTick ==
    [][\A h \in Hosts :
        (env.tcp /\ out'.h = h /\ out'.op = "tick_tcp" /\ rz'[h].pc # "ret_err") =>
            /\ (rz'[h].pc = "tpk_send") <=>
                  /\ ~cfg.key_confirmed \/ ~cfg.hkc[get_host_prefix(h)]
                  /\ rz[h].sent = None \/ as_millis(rz[h].sent) >= REG_INTERVAL
            /\ (cfg.key_confirmed /\ cfg.hkc[get_host_prefix(h)]) =>
                  rz'[h].pc = "loop"]_vars

(* C29: a tick of the TCP loop that does not exit returns with the         *)
(* timeout error iff the time since the last inbound data is more than     *)
(* 1.5 times the session's keep_alive.                                     *)
C29_DeadPeer ==
    [][\A h \in Hosts :
        (env.tcp /\ out'.h = h /\ out'.op = "tick_tcp") =>
            LET k == rz[h].keep_alive
                age == as_millis(rz[h].recv)
                exceeds == IF k < 0 THEN TRUE ELSE 2 * age > 3 * k
            IN  (rz'[h].pc = "ret_err") <=> exceeds]_vars

(* C30: a session starts with a keep_alive of 60000; the handling of a     *)
(* RegisterPkResponse with a positive override o that returns to the loop  *)
(* leaves keep_alive = 1000 * o, one with o <= 0 leaves it as it was; no   *)
(* other step of the loop changes it; it is never below 1000.              *)
C30_KeepAlive ==
    [][\A h \in Hosts :
        LET o == IF out'.op = "RegisterPkResponse_OTHER"
                 THEN out'.arg[1] ELSE rz[h].ka
            done == /\ out'.h = h
                    /\ \/ out'.op \in {"RegisterPkResponse_OTHER",
                                        "ok_clear", "mm_skip"}
                       \/ out'.op = "mm_send" /\ out'.arg = <<TRUE>>
        IN  /\ rz'[h].keep_alive >= 1000
            /\ (done /\ o > 0) =>
                  /\ rz'[h].keep_alive % 1000 = 0
                  /\ rz'[h].keep_alive \div 1000 = o
            /\ (done /\ o <= 0) => rz'[h].keep_alive = rz[h].keep_alive
            /\ (out'.h = h /\ ~done /\ out'.op # "task_exit") =>
                  rz'[h].keep_alive = rz[h].keep_alive
            /\ (out'.h = h /\ out'.op \in {"start_udp", "start_tcp"}) =>
                  rz'[h].keep_alive = 60000]_vars

(* C31: a host that handles UUID_MISMATCH recovers iff the guard is empty  *)
(* or names it.  The recovering step marks the key unconfirmed, calls      *)
(* update_id once, stores the host in the guard and sends nothing; the     *)
(* host's next step is the send of one RegisterPk, after which it is back  *)
(* in its loop or has returned the send error.  The skipping step leaves   *)
(* the configuration and the guard as they are, calls nothing, sends       *)
(* nothing and puts the host back in its loop.                             *)
C31_UuidMismatch ==
    [][\A h \in Hosts :
        /\ (out'.h = h /\ rz[h].pc = "mm_held") =>
              out'.op = IF SOLVING_PK_MISMATCH \in {NoHost, h}
                        THEN "mm_recover" ELSE "mm_skip"
        /\ (out'.h = h /\ out'.op = "mm_recover") =>
              /\ cfg' = [cfg EXCEPT !.key_confirmed = FALSE]
              /\ out'.arg = <<"update_id">>
              /\ SOLVING_PK_MISMATCH' = h
              /\ out'.sent = <<>>
              /\ rz'[h].pc = "mm_send"
        /\ (out'.h = h /\ rz[h].pc = "mm_send") =>
              /\ out'.op = "mm_send"
              /\ out'.sent = <<Snd("RegisterPk", rz[h].laddr)>>
              /\ rz'[h].pc = (IF out'.arg = <<TRUE>> THEN "loop" ELSE "ret_err")
              /\ UNCHANGED <<cfg, SOLVING_PK_MISMATCH>>
        /\ (out'.h = h /\ out'.op = "mm_skip") =>
              /\ UNCHANGED <<cfg, SOLVING_PK_MISMATCH>>
              /\ out'.arg = <<>>
              /\ out'.sent = <<>>
              /\ rz'[h].pc = "loop"]_vars

(* One host has recovered and sent its RegisterPk and is back in its loop, *)
(* its recovery unanswered; the other host, refused by the guard, has just *)
(* skipped.                                                                *)
C31_Witness ==
    \E a, b \in Hosts :
        /\ a # b
        /\ out.h = b /\ out.op = "mm_skip"
        /\ SOLVING_PK_MISMATCH = a
        /\ pending = a
        /\ rz[a].pc = "loop"
        /\ rz[b].pc = "loop"

(* C32: register_peer decides on the guard as it reads it under the lock:  *)
(* if the guard names another host the attempt ends without a send;        *)
(* otherwise the step that drops the guard builds one message, a           *)
(* RegisterPeer if the key is confirmed both globally and for the host     *)
(* prefix, else a RegisterPk, and the host's next step is the end of the   *)
(* send of that message.  No registration is sent on any other path of     *)
(* the UDP tick.                                                           *)
C32_RegisterPeer ==
    [][\A h \in Hosts :
        /\ (out'.h = h /\ rz[h].pc = "rp_held") =>
              /\ lock = h
              /\ out'.sent = <<>>
              /\ IF SOLVING_PK_MISMATCH \in {NoHost, h}
                 THEN /\ out'.op = "rp_release" /\ rz'[h].pc = "rp_send"
                      /\ rz'[h].kind =
                            (IF cfg.key_confirmed /\ cfg.hkc[get_host_prefix(h)]
                             THEN "RegisterPeer" ELSE "RegisterPk")
                 ELSE out'.op = "rp_skip" /\ rz'[h].pc = "loop"
        /\ (rz'[h].pc = "rp_send" /\ rz[h].pc # "rp_send") =>
              (out'.h = h /\ out'.op = "rp_release")
        /\ (out'.h = h /\ rz[h].pc = "rp_send") =>
              /\ out'.op = "register_peer"
              /\ ~env.tcp
              /\ out'.sent = <<Snd(rz[h].kind, rz[h].laddr)>>
              /\ rz'[h].pc # "rp_send"
        /\ (/\ out'.h = h
            /\ \E i \in 1..Len(out'.sent) : out'.sent[i].m = "RegisterPeer") =>
              rz[h].pc = "rp_send"]_vars

(* The key is confirmed globally by the other host's OK but not for this   *)
(* host's prefix: the guard allowed and a RegisterPk was sent.             *)
C32_Witness ==
    \E a, b \in Hosts :
        /\ a # b
        /\ out.h = b /\ out.op = "register_peer"
        /\ out.sent = <<Snd("RegisterPk", rz[b].laddr)>>
        /\ cfg.key_confirmed
        /\ cfg.hkc[get_host_prefix(a)]
        /\ ~cfg.hkc[get_host_prefix(b)]

Calls(f) == {i \in 1..Len(trav.calls) : trav.calls[i].f = f}

Sends(kinds) ==
    {i \in Calls("send") : trav.calls[i].args[1].t \in kinds}

(* C33: a PunchHole goes to the relay fallback iff the peer's NAT type or  *)
(* the local one is symmetric, a FetchLocalAddr iff the session's address  *)
(* is not IPv4.  On the relay path the correlation id is a fresh one, no   *)
(* PunchHoleSent or LocalAddr is sent and accept_connection is not called; *)
(* on the direct path no RelayResponse is sent and                         *)
(* create_relay_connection is not called.                                  *)
C33_Fallback ==
    (trav.pc \notin {"idle", "begin"} /\ trav.m.t # "RequestRelay") =>
        IF \/ /\ trav.m.t = "PunchHole"
              /\ (trav.m.nat_type = "SYMMETRIC" \/ env.nat = "SYMMETRIC")
           \/ /\ trav.m.t = "FetchLocalAddr"
              /\ ~env.ipv4
        THEN /\ trav.pc \in {"relay_connect", "relay_send", "run", "err"}
             /\ trav.uuid = new_v4
             /\ trav.uuid # trav.m.uuid
             /\ Sends({"PunchHoleSent", "LocalAddr"}) = {}
             /\ Calls("accept_connection") = {}
             /\ \A i \in Sends({"RelayResponse"}) :
                    trav.calls[i].args[1].uuid = new_v4
             /\ \A i \in Calls("create_relay_connection") :
                    trav.calls[i].args[2] = new_v4
             /\ trav.pc = "run" => Calls("create_relay_connection") # {}
        ELSE /\ trav.pc \in {"connect", "preconnect", "send", "run", "err"}
             /\ Sends({"RelayResponse"}) = {}
             /\ Calls("create_relay_connection") = {}
             /\ trav.pc = "run" => Calls("accept_connection") # {}

(* A PunchHole from a peer that is not behind a symmetric NAT, while the   *)
(* local NAT type is symmetric, has been answered through the relay.       *)
C33_Witness ==
    /\ trav.pc = "run"
    /\ trav.m.t = "PunchHole"
    /\ trav.m.nat_type = "ASYMMETRIC"
    /\ env.nat = "SYMMETRIC"
    /\ Calls("create_relay_connection") # {}

(* C34: the RelayResponse of the relay setup carries the correlation id,   *)
(* the relay server and the local id when the setup was started by a       *)
(* PunchHole or FetchLocalAddr fallback (initiate), and leaves the three   *)
(* empty for a RequestRelay; create_relay_connection is called only right  *)
(* after a successful send of the RelayResponse over a connection that was *)
(* established, and after a failed connect or send the handler calls       *)
(* nothing more.                                                           *)
C34_RelayResponse ==
    trav.pc \notin {"idle", "begin"} =>
        /\ \A i \in Sends({"RelayResponse"}) :
              LET rr == trav.calls[i].args[1]
              IN  /\ rr.socket_addr = trav.m.socket_addr
                  /\ IF trav.m.t = "RequestRelay"
                     THEN rr.uuid = "" /\ rr.relay_server = NoRelay /\ rr.id = ""
                     ELSE /\ rr.uuid = new_v4
                          /\ rr.relay_server = trav.relay_server
                          /\ rr.relay_server # NoRelay
                          /\ rr.id = "id"
        /\ \A j \in Calls("create_relay_connection") :
              /\ j = 3
              /\ trav.calls[1].f = "connect_tcp" /\ trav.calls[1].ok
              /\ trav.calls[2].f = "send" /\ trav.calls[2].ok
              /\ trav.calls[2].args[1].t = "RelayResponse"
        /\ \A i \in 1..Len(trav.calls) :
              ~trav.calls[i].ok =>
                 \/ trav.calls[i].f = "connect_tcp_local"
                 \/ i = Len(trav.calls) /\ trav.pc = "err"
        /\ trav.pc = "err" => Calls("create_relay_connection") = {}

(* A RequestRelay that named a relay server and a correlation id: the      *)
(* RelayResponse went out without them and the relay is being set up with  *)
(* the values of the request.                                              *)
C34_Witness ==
    /\ trav.pc = "run"
    /\ trav.m.t = "RequestRelay"
    /\ trav.m.relay_server = ServerRelay
    /\ Len(trav.calls) = 3
    /\ trav.calls[2].args[1].uuid = ""
    /\ trav.calls[3].f = "create_relay_connection"
    /\ trav.calls[3].args[1] = ServerRelay
    /\ trav.calls[3].args[2] = "peer-uuid"

(* C35: for every traversal message the relay server that is used, in the  *)
(* notice that is sent and in the call of create_relay_connection, is the  *)
(* relay-server option if it is set, else the relay server of the inbound  *)
(* message if it names one, else the rendezvous host with its port         *)
(* increased by the fixed offset.                                          *)
C35_RelayServer ==
    trav.pc \notin {"idle", "begin"} =>
        LET chosen ==
                IF env.relay # NoRelay THEN env.relay
                ELSE IF trav.m.relay_server # NoRelay THEN trav.m.relay_server
                ELSE <<trav.host[1], trav.host[2] + RELAY_PORT_OFFSET>>
        IN  /\ \A i \in Sends({"PunchHoleSent", "LocalAddr"}) :
                  trav.calls[i].args[1].relay_server = chosen
            /\ \A i \in Sends({"RelayResponse"}) :
                  trav.m.t # "RequestRelay" =>
                      trav.calls[i].args[1].relay_server = chosen
            /\ \A i \in Calls("create_relay_connection") :
                  trav.calls[i].args[1] = chosen

(* C36: on the direct path of a PunchHole the calls are, in this order,    *)
(* the connect to the rendezvous host, the pre-connect to the peer from    *)
(* the local address of that connection, the send of PunchHoleSent and     *)
(* accept_connection; each is made only after the one before has           *)
(* returned, the connect and the send with success, the pre-connect with   *)
(* any result; a failed connect or send ends the handler with an error     *)
(* and without accept_connection, and the step after the pre-connect,      *)
(* failed or not, is the send.                                             *)
C36_PunchHoleOrder ==
    /\ [](LET c == trav.calls
               n == Len(c)
           IN  (/\ trav.pc \notin {"idle", "begin"}
                /\ trav.m.t = "PunchHole"
                /\ trav.pc \notin {"relay_connect", "relay_send"}
                /\ Calls("create_relay_connection") = {}
                /\ Sends({"RelayResponse"}) = {}) =>
                   /\ n <= 4
                   /\ (n >= 1) => (/\ c[1].f = "connect_tcp"
                                   /\ c[1].args = <<trav.host>>)
                   /\ (n >= 2) => (/\ c[1].ok
                                   /\ c[2].f = "connect_tcp_local"
                                   /\ c[2].args = <<trav.m.socket_addr, "local_addr">>)
                   /\ (n >= 3) => (/\ c[3].f = "send"
                                   /\ c[3].args[1].t = "PunchHoleSent")
                   /\ (n >= 4) => (c[3].ok /\ c[4].f = "accept_connection")
                   /\ (trav.pc = "connect") <=> (n = 0)
                   /\ (trav.pc = "preconnect") <=> (n = 1 /\ c[1].ok)
                   /\ (trav.pc = "send") <=> (n = 2)
                   /\ (trav.pc = "run") <=> (n = 4)
                   /\ (trav.pc = "err") <=> ((n = 1 /\ ~c[1].ok) \/ (n = 3 /\ ~c[3].ok)))
    /\ [][trav.pc = "preconnect" => trav'.pc = "send"]_trav

(* The pre-connect to the peer failed; PunchHoleSent was sent and the      *)
(* socket handed to accept_connection.                                     *)
C36_Witness ==
    /\ trav.pc = "run"
    /\ trav.m.t = "PunchHole"
    /\ Len(trav.calls) = 4
    /\ trav.calls[2].f = "connect_tcp_local"
    /\ ~trav.calls[2].ok
    /\ trav.calls[4].f = "accept_connection"

(* C37: the lock of the guard is held only by a host that is between the   *)
(* acquisition and the end of its critical section, never by a host that   *)
(* waits for a datagram, a tick, a send or a connect, and never by the     *)
(* orchestrator across a step; the holder's next step releases it, and it  *)
(* comes; a host that waits for the lock gets it.                          *)
C37_NoLockAcrossAwait ==
    /\ [](lock \in Hosts \cup {Free})
    /\ [](\A h \in Hosts :
            lock = h <=> rz[h].pc \in {"ok_held", "mm_held", "rp_held"})
    /\ [][\A h \in Hosts :
            lock = h => (lock' = lock \/ (out'.h = h /\ lock' = Free))]_vars
    /\ [][\A h \in Hosts : (lock = h /\ out'.h = h) => lock' = Free]_vars
    /\ \A h \in Hosts : (lock = h) ~> (lock = Free)
    /\ \A h \in Hosts :
            (rz[h].pc \in {"ok_lock", "mm_lock", "rp_lock"}) ~> (lock = h)

(* One host waits for the send of its RegisterPk to finish while the other *)
(* holds the lock in register_peer.                                        *)
C37_Witness ==
    \E a, b \in Hosts :
        /\ a # b
        /\ rz[a].pc = "mm_send"
        /\ lock = b
        /\ rz[b].pc = "rp_held"

(* C38: on a session that is not X11, whenever check_init has returned Ok  *)
(* (to its caller or to get_displays), after any calls before it, the      *)
(* capture table is not empty and has one entry for each display of the    *)
(* listing.                                                                *)
C38_InitTable ==
    (/\ ~env.x11
     /\ wl.op = "check_init"
     /\ wl.ret = "Ok") =>
        /\ wl.cap # {}
        /\ wl.cap = 0..(wl.num - 1)

====
